---- MODULE Spec2Model ----
(***************************************************************************)
(* Conduit: the tunnel Manager (internal/manager/manager.go), its          *)
(* auto-restart supervisors and Reconcile, over an abstract tunnel         *)
(* (github.com/pperesbr/gokit/pkg/tunnel, modelled from the specification  *)
(* of the tunnel state machine).                                           *)
(*                                                                         *)
(* Granularity: one step per critical section of the manager's RWMutex and *)
(* one step per call into a tunnel (the tunnel serialises its own state).  *)
(***************************************************************************)
EXTENDS Integers, FiniteSets, Sequences, TLC

\* ---------------------------------------------------------------- bounds
\* tunnel objects that can be live (referenced or listening) at once, per name
MaxTun == 2
\* calls a caller makes in a run of the lifecycle methods
MaxCalls == 4
\* Reconcile calls in a run of reloads
MaxReconciles == 3
\* calls made in all by the callers of a concurrent run
MaxConcurrentCalls == 4
\* calls of a run that sets tunnels up and then adds and removes one
MaxSetupCalls == 4
\* events the watcher processes in a run
MaxReloads == 2

\* calls made in all by two callers that start the same tunnels
MaxStartRaceCalls == 3
\* calls made in all while Reconcile races with another caller's Add
MaxRaceCalls == 3

\* Reconcile calls in a run that changes one field of a tunnel at a time
MaxFieldReconciles == 2
\* events the watcher receives in a run
MaxEvents == 2
\* calls made in all by the two callers that interleave on the manager's lock
MaxLockCalls == 2
\* calls made in all by HealthCheck's caller and the tunnels' caller
MaxHealthCalls == 5
\* events the watcher receives between main's start-up and the signal
MaxShutdownEvents == 1
\* calls made by the two callers that interleave on the cancel channels
MaxChannelCalls == 3

\* the most supervisors a run spawns for one name, whatever the specification:
\* a call spawns at most one per name, and where the tunnels are registered
\* by Add calls one call of the run is that Add
MaxSpawns ==
  LET caps == {MaxCalls - 1, MaxConcurrentCalls - 1, MaxSetupCalls - 1,
               MaxStartRaceCalls - 1, MaxReconciles, MaxReloads, MaxRaceCalls,
               MaxFieldReconciles, MaxEvents, MaxLockCalls, MaxShutdownEvents + 1,
                 MaxChannelCalls}
  IN  CHOOSE x \in caps : \A y \in caps : y <= x
\* identities for the supervisor goroutines and cancel channels of a name:
\* startAutoRestartForTunnel always finds one unused
MaxSup == MaxSpawns

\* ---------------------------------------------------------------- domains
Names == {"t1", "t2"}
Threads == {"main", "watcher"}
SSHConfigs == {"ssh1", "ssh2"}
NameIndex(n) == IF n = "t1" THEN 0 ELSE 1
\* object identities; each name draws its objects from its own range
TunIds == 1..(2 * MaxTun)
SupIds == 1..(2 * MaxSup)
TunIdsOf(n) == (NameIndex(n) * MaxTun + 1)..(NameIndex(n) * MaxTun + MaxTun)
SupIdsOf(n) == (NameIndex(n) * MaxSup + 1)..(NameIndex(n) * MaxSup + MaxSup)
NoTun == 0
NoSup == 0

\* the zero value of config.TunnelConfig (what a missing map key reads as)
NoCfg ==
  [name |-> "", remoteHost |-> "", remotePort |-> 0, localPort |-> 0,
   enabled |-> FALSE, interval |-> 0]

DefaultPort(n) == IF n = "t1" THEN 1 ELSE 2

BaseCfg(n) ==
  [name |-> n, remoteHost |-> "A", remotePort |-> 1521,
   localPort |-> DefaultPort(n), enabled |-> FALSE, interval |-> 0]

\* the tunnel configurations callers hand to Add and Reconcile: t1 with
\* either remote host, t1 with auto-restart on, t2 in one shape
CfgPool ==
  {BaseCfg("t1"), [BaseCfg("t1") EXCEPT !.remoteHost = "B"],
   [BaseCfg("t1") EXCEPT !.enabled = TRUE, !.interval = 1], BaseCfg("t2")}

\* desired configurations over a pool: SSH settings and at most one tunnel per name
NewConfigsOver(sshs, pool) ==
  { nc \in [ssh : sshs, t : [Names -> pool \cup {NoCfg}]] :
      \A n \in Names : nc.t[n] = NoCfg \/ nc.t[n].name = n }

NewConfigs == NewConfigsOver({"ssh1"}, CfgPool)

NewNames(nc) == {n \in Names : nc.t[n] # NoCfg}

\* ---------------------------------------------------------------- tunnel
FreeTun ==
  [ssh |-> "", remoteHost |-> "", remotePort |-> 0, localPort |-> 0,
   status |-> "free", lastError |-> FALSE, listener |-> FALSE]

NewTunnel(ssh, remoteHost, remotePort, localPort) ==
  [ssh |-> ssh, remoteHost |-> remoteHost, remotePort |-> remotePort,
   localPort |-> localPort, status |-> "Stopped", lastError |-> FALSE,
   listener |-> FALSE]

\* 127.0.0.1:localPort of tunnel id is not bound by any other tunnel object
PortFree(tunF, id) ==
  \A j \in TunIds \ {id} :
     ~(tunF[j].listener /\ tunF[j].localPort = tunF[id].localPort)

\* Tunnel.Start: AlreadyRunning leaves the tunnel alone; a failed bind or an
\* unavailable SSH session puts it in Error with lastError set.
TunStart(tunF, id, up) ==
  IF tunF[id].status \in {"Running", "Starting"}
  THEN [tun |-> tunF, err |-> TRUE]
  ELSE IF up /\ PortFree(tunF, id)
  THEN [tun |-> [tunF EXCEPT ![id].status = "Running", ![id].listener = TRUE,
                             ![id].lastError = FALSE],
        err |-> FALSE]
  ELSE [tun |-> [tunF EXCEPT ![id].status = "Error", ![id].listener = FALSE,
                             ![id].lastError = TRUE],
        err |-> TRUE]

\* Tunnel.Stop: idempotent on a tunnel that is not Running; stopping a Running
\* tunnel may fail (ok = FALSE), which leaves it as it was.
TunStop(tunF, id, ok) ==
  IF tunF[id].status = "Running" /\ ~ok
  THEN [tun |-> tunF, err |-> TRUE]
  ELSE [tun |-> [tunF EXCEPT ![id].status = "Stopped", ![id].listener = FALSE],
        err |-> FALSE]

\* Tunnel.Restart: Stop then Start
TunRestart(tunF, id, ok, up) ==
  LET s == TunStop(tunF, id, ok)
  IN  IF s.err THEN s ELSE TunStart(s.tun, id, up)

\* ---------------------------------------------------------------- state
VARIABLES
  sshConfig,    \* Manager.sshConfig
  tunnels,      \* Manager.tunnels: name -> tunnel object (NoTun = absent)
  configs,      \* Manager.configs: name -> TunnelConfig (NoCfg = absent)
  tunnelDones,  \* Manager.tunnelDones: name -> cancel channel (NoSup = absent)
  mdone,        \* Manager.done has been closed
  rlock,        \* callers holding Manager.mu.RLock across steps
  panicked,     \* the process died of a runtime panic
  tun,          \* the tunnel objects
  sup,          \* supervisor goroutines and their cancel channels
  pc, cont, loc, \* callers: position, return label of a nested call, locals
  ncalls,       \* calls made so far
  hist          \* callers: the call in progress or last completed, for the properties

vars == <<sshConfig, tunnels, configs, tunnelDones, mdone, rlock, panicked,
          tun, sup, pc, cont, loc, ncalls, hist>>

FreeSup ==
  [name |-> "", interval |-> 0, pc |-> "exited", closed |-> FALSE, h |-> NoTun,
   status |-> ""]

NoSnapshot ==
  [tunnels |-> [n \in Names |-> NoTun], configs |-> [n \in Names |-> NoCfg],
   tunnelDones |-> [n \in Names |-> NoSup]]

\* an fsnotify.Event: the path as a sequence of characters, the Op bit mask
NoEvent == [name |-> <<>>, op |-> 0]

\* a caller's locals; pre is the registry as it was when the call was made,
\* busy the names whose Start failed with AlreadyRunning, event the event
\* the watch loop received, status and results the status HealthCheck has
\* read and the records it has built, queue the tunnels main has still to add
InitLoc ==
  [name |-> "", cfg |-> NoCfg, h |-> NoTun, err |-> FALSE, busy |-> {},
   new |-> [ssh |-> "", t |-> [n \in Names |-> NoCfg]],
   cur |-> {}, todo |-> {}, pre |-> NoSnapshot, event |-> NoEvent,
   status |-> "", results |-> {}, queue |-> <<>>]

\* op, arg, ret: the call in progress ("pending") or the last one completed;
\* acts: the manager methods it has called, errs: those that failed;
\* rep: it repeats the call completed just before it, whose failures were prevErrs
\* conc: it is a Start made on a Stopped tunnel while another caller's Start
\* of the same name has not reached the tunnel yet
\* health, unhealthy: the records HealthCheck and Unhealthy returned
InitHist ==
  [op |-> "none", arg |-> "", ret |-> "nil", errs |-> {}, acts |-> {},
   rep |-> FALSE, prevErrs |-> {}, conc |-> FALSE, health |-> {},
   unhealthy |-> {}]

\* NewManager
Init ==
  /\ sshConfig = "ssh1"
  /\ tunnels = [n \in Names |-> NoTun]
  /\ configs = [n \in Names |-> NoCfg]
  /\ tunnelDones = [n \in Names |-> NoSup]
  /\ mdone = FALSE
  /\ rlock = {}
  /\ panicked = FALSE
  /\ tun = [i \in TunIds |-> FreeTun]
  /\ sup = [i \in SupIds |-> FreeSup]
  /\ pc = [th \in Threads |-> "idle"]
  /\ cont = [th \in Threads |-> "none"]
  /\ loc = [th \in Threads |-> InitLoc]
  /\ ncalls = 0
  /\ hist = [th \in Threads |-> InitHist]

\* ---------------------------------------------------------------- memory
\* A tunnel object lives while the registry, a caller or a supervisor holds it,
\* or while its listener is bound; a cancel channel and its goroutine slot live
\* while the goroutine runs or the registry holds the channel.
GCTun(tunF, reg, locF, supF) ==
  [i \in TunIds |->
     IF \/ \E n \in Names : reg[n] = i
        \/ \E th \in Threads : locF[th].h = i
        \/ \E s \in SupIds : supF[s].h = i
        \/ tunF[i].listener
     THEN tunF[i] ELSE FreeTun]

GCSup(supF, dones) ==
  [s \in SupIds |->
     IF supF[s].pc # "exited" \/ \E n \in Names : dones[n] = s
     THEN supF[s] ELSE FreeSup]

FreeTunIds(n) == {i \in TunIdsOf(n) : tun[i] = FreeTun}
Min(S) == CHOOSE x \in S : \A y \in S : x <= y

\* the process is gone: log.Fatalf at start-up, or main has returned
Exited ==
  \/ hist["main"].op = "Boot" /\ hist["main"].ret = "fatal"
  \/ hist["main"].op = "Shutdown" /\ pc["main"] = "idle"

\* the process runs: no goroutine has panicked and main has not left
Alive == ~panicked /\ ~Exited

\* Manager.mu is held for writing from one step to the next by Remove only,
\* between its read of the tunnel's status and its return
WriteLocked == \E th \in Threads : pc[th] \in {"rm_stop", "rm_delete"}

\* sync.RWMutex: Lock needs nobody inside, RLock needs no writer inside
CanLock == rlock = {} /\ ~WriteLocked
CanRLock == ~WriteLocked

Registered == {n \in Names : tunnels[n] # NoTun}

\* ---------------------------------------------------------------- calls
Snapshot == [tunnels |-> tunnels, configs |-> configs, tunnelDones |-> tunnelDones]

Act(o, n) == [op |-> o, name |-> n]

\* one of the failed calls in errs is a Remove
RemoveFailed(errs) == \E n \in Names : Act("Remove", n) \in errs

\* a caller enters a manager method, as one of at most cap calls of the run;
\* no method looks at Manager.done: a closed manager is called like an open one
Call(th, opname, arg, first, l, cap) ==
  /\ Alive
  /\ pc[th] = "idle"
  /\ ncalls < cap
  /\ ncalls' = ncalls + 1
  /\ pc' = [pc EXCEPT ![th] = first]
  /\ loc' = [loc EXCEPT ![th] = [l EXCEPT !.pre = Snapshot]]
  /\ LET again == IF hist[th].op = opname THEN hist[th].arg = arg ELSE FALSE
         both == /\ opname = "Start"
                 /\ \E o \in Threads \ {th} :
                      /\ hist[o].op = "Start" /\ pc[o] \in {"st_read", "st_tun"}
                      /\ hist[o].arg = arg
                 /\ tunnels[arg] # NoTun
                 /\ tun[tunnels[arg]].status = "Stopped"
     IN
     hist' = [hist EXCEPT ![th] =
                [op |-> opname, arg |-> arg, ret |-> "pending", errs |-> {},
                 acts |-> {}, rep |-> again,
                 prevErrs |-> IF again THEN hist[th].errs ELSE {},
                 conc |-> both, health |-> {}, unhealthy |-> {}]]
  /\ UNCHANGED <<sshConfig, tunnels, configs, tunnelDones, mdone, rlock,
                 panicked, tun, sup, cont>>

\* the manager method a nested call that returns to label cont was a call of
Callee(label) ==
  CASE label = "rc_rm_loop" -> "Remove"
    [] label = "rc_add_ret" -> "Add"
    [] label = "rc_add_loop" -> "Start"
    [] label = "sta_loop" -> "Start"
    [] label = "rc_chg_loop" -> "Restart"
    [] label = "ar_added" -> "Add"
    [] label = "ar_removed" -> "Remove"
    [] label = "bt_add_loop" -> "Add"
    [] OTHER -> "none"

\* the current method returns err, with locals l: to the caller when it is a
\* top-level call (main at start-up goes on from its StartAll to the
\* watcher), else back into the loop of StartAll or Reconcile, which notes
\* the failure; after a successful Add, Reconcile goes on to Start
Return(th, err, l) ==
  IF cont[th] = "none"
  THEN /\ pc' = [pc EXCEPT ![th] = IF hist[th].op = "Boot" THEN "bt_watch"
                                                          ELSE "idle"]
       /\ cont' = cont
       /\ ncalls' = ncalls
       /\ loc' = [loc EXCEPT ![th] = InitLoc]
       /\ hist' = [hist EXCEPT ![th].ret = IF err THEN "err" ELSE "nil"]
  ELSE LET start == cont[th] = "rc_add_ret" /\ ~err IN
       /\ pc' = [pc EXCEPT ![th] =
                   IF cont[th] = "rc_add_ret"
                   THEN (IF err THEN "rc_add_loop" ELSE "st_read")
                   ELSE cont[th]]
       /\ cont' = [cont EXCEPT ![th] = IF start THEN "rc_add_loop" ELSE "none"]
       /\ ncalls' = ncalls
       /\ loc' = [loc EXCEPT ![th] = [l EXCEPT !.h = NoTun, !.err = err]]
       /\ hist' = [hist EXCEPT
                     ![th].errs = IF err THEN @ \cup {Act(Callee(cont[th]), l.name)} ELSE @,
                     ![th].acts = IF start THEN @ \cup {Act("Start", l.name)} ELSE @]

Goto(th, label, l) ==
  /\ pc' = [pc EXCEPT ![th] = label]
  /\ loc' = [loc EXCEPT ![th] = l]
  /\ UNCHANGED <<cont, ncalls, hist>>

Panic ==
  /\ panicked' = TRUE
  /\ UNCHANGED <<sshConfig, tunnels, configs, tunnelDones, mdone, rlock,
                 tun, sup, pc, cont, loc, ncalls, hist>>

SetSup(supF) == sup' = GCSup(supF, tunnelDones')
SetTun(tunF) == tun' = GCTun(tunF, tunnels', loc', sup')

\* ---------------------------------------------------------------- Add
AddCall(th, cfg, cap) ==
  Call(th, "Add", cfg, "add", [InitLoc EXCEPT !.name = cfg.name, !.cfg = cfg], cap)

\* an Add that also starts the tunnel it registers
Add_Starts(th) ==
  /\ Alive /\ pc[th] = "add" /\ CanLock
  /\ LET cfg == loc[th].cfg IN
     IF tunnels[cfg.name] # NoTun
     THEN /\ Return(th, TRUE, loc[th])
          /\ UNCHANGED <<sshConfig, tunnels, configs, tunnelDones, mdone, rlock,
                         panicked, tun, sup>>
     ELSE /\ FreeTunIds(cfg.name) # {}
          /\ LET id == Min(FreeTunIds(cfg.name)) IN
             /\ tunnels' = [tunnels EXCEPT ![cfg.name] = id]
             /\ configs' = [configs EXCEPT ![cfg.name] = cfg]
             /\ Return(th, FALSE, loc[th])
             /\ UNCHANGED <<sshConfig, tunnelDones, mdone, rlock, panicked, sup>>
             /\ SetTun(TunStart([tun EXCEPT ![id] =
                                   NewTunnel(sshConfig, cfg.remoteHost,
                                             cfg.remotePort, cfg.localPort)],
                                id, TRUE).tun)

\* an Add that replaces the stored config of a name already registered
Add_Overwrite(th) ==
  /\ Alive /\ pc[th] = "add" /\ CanLock
  /\ LET cfg == loc[th].cfg IN
     IF tunnels[cfg.name] # NoTun
     THEN /\ configs' = [configs EXCEPT ![cfg.name] = cfg]
          /\ Return(th, TRUE, loc[th])
          /\ UNCHANGED <<sshConfig, tunnels, tunnelDones, mdone, rlock,
                         panicked, tun, sup>>
     ELSE /\ FreeTunIds(cfg.name) # {}
          /\ LET id == Min(FreeTunIds(cfg.name)) IN
             /\ tunnels' = [tunnels EXCEPT ![cfg.name] = id]
             /\ configs' = [configs EXCEPT ![cfg.name] = cfg]
             /\ Return(th, FALSE, loc[th])
             /\ UNCHANGED <<sshConfig, tunnelDones, mdone, rlock, panicked, sup>>
             /\ SetTun([tun EXCEPT ![id] =
                          NewTunnel(sshConfig, cfg.remoteHost, cfg.remotePort, cfg.localPort)])

Add(th) ==
  /\ Alive /\ pc[th] = "add" /\ CanLock
  /\ LET cfg == loc[th].cfg IN
     IF tunnels[cfg.name] # NoTun
     THEN /\ Return(th, TRUE, loc[th])
          /\ UNCHANGED <<sshConfig, tunnels, configs, tunnelDones, mdone, rlock,
                         panicked, tun, sup>>
     ELSE /\ FreeTunIds(cfg.name) # {}
          /\ LET id == Min(FreeTunIds(cfg.name)) IN
             /\ tunnels' = [tunnels EXCEPT ![cfg.name] = id]
             /\ configs' = [configs EXCEPT ![cfg.name] = cfg]
             /\ Return(th, FALSE, loc[th])
             /\ UNCHANGED <<sshConfig, tunnelDones, mdone, rlock, panicked, sup>>
             /\ SetTun([tun EXCEPT ![id] =
                          NewTunnel(sshConfig, cfg.remoteHost, cfg.remotePort, cfg.localPort)])

\* ---------------------------------------------------------------- supervisors' registry
\* a stopAutoRestartForTunnel that closes the channel and leaves it registered
StopAutoRestartForTunnel_KeepsEntry(th, from, to) ==
  /\ Alive /\ pc[th] = from /\ CanLock
  /\ LET name == loc[th].name
         d == tunnelDones[name] IN
     IF d = NoSup
     THEN /\ Goto(th, to, loc[th])
          /\ UNCHANGED <<sshConfig, tunnels, configs, tunnelDones, mdone, rlock,
                         panicked, tun, sup>>
     ELSE IF sup[d].closed
     THEN Panic
     ELSE /\ tunnelDones' = tunnelDones
          /\ SetSup([sup EXCEPT ![d].closed = TRUE])
          /\ Goto(th, to, loc[th])
          /\ UNCHANGED <<sshConfig, tunnels, configs, mdone, rlock, panicked, tun>>

\* stopAutoRestartForTunnel, as one critical section entered at label from
StopAutoRestartForTunnel(th, from, to) ==
  /\ Alive /\ pc[th] = from /\ CanLock
  /\ LET name == loc[th].name
         d == tunnelDones[name] IN
     IF d = NoSup
     THEN /\ Goto(th, to, loc[th])
          /\ UNCHANGED <<sshConfig, tunnels, configs, tunnelDones, mdone, rlock,
                         panicked, tun, sup>>
     ELSE IF sup[d].closed
     THEN Panic
     ELSE /\ tunnelDones' = [tunnelDones EXCEPT ![name] = NoSup]
          /\ SetSup([sup EXCEPT ![d].closed = TRUE])
          /\ Goto(th, to, loc[th])
          /\ UNCHANGED <<sshConfig, tunnels, configs, mdone, rlock, panicked, tun>>

\* startAutoRestartForTunnel: cancel the registered supervisor, register a new
\* cancel channel and spawn the goroutine, whatever the interval; the
\* goroutine makes its ticker in its own first step
StartAutoRestartForTunnel(th) ==
  /\ Alive /\ pc[th] = "st_sar" /\ CanLock
  /\ LET name == loc[th].name
         d == tunnelDones[name] IN
     IF d # NoSup /\ sup[d].closed
     THEN Panic
     ELSE LET sup1 == IF d = NoSup THEN sup ELSE [sup EXCEPT ![d].closed = TRUE]
              sup2 == GCSup(sup1, [tunnelDones EXCEPT ![name] = NoSup])
              free == {s \in SupIdsOf(name) : sup2[s] = FreeSup}
          IN /\ free # {}
             /\ LET s == Min(free) IN
                /\ tunnelDones' = [tunnelDones EXCEPT ![name] = s]
                /\ SetSup([sup2 EXCEPT ![s] =
                            [name |-> name, interval |-> loc[th].cfg.interval,
                             pc |-> "select", closed |-> FALSE, h |-> NoTun,
                             status |-> ""]])
                /\ Return(th, FALSE, loc[th])
                /\ UNCHANGED <<sshConfig, tunnels, configs, mdone, rlock, panicked>>
                /\ SetTun(tun)

\* ---------------------------------------------------------------- Remove
RemoveCall(th, n, cap) ==
  Call(th, "Remove", n, "rm_sar", [InitLoc EXCEPT !.name = n], cap)

RemoveStopAutoRestart(th) == StopAutoRestartForTunnel(th, "rm_sar", "rm_locked")

\* m.mu.Lock(), the lookup and tun.Status(); the lock is kept
Remove(th) ==
  /\ Alive /\ pc[th] = "rm_locked" /\ CanLock
  /\ LET name == loc[th].name
         id == tunnels[name] IN
     /\ IF id = NoTun
        THEN Return(th, TRUE, loc[th])
        ELSE Goto(th, IF tun[id].status = "Running" THEN "rm_stop" ELSE "rm_delete",
                  [loc[th] EXCEPT !.h = id])
     /\ UNCHANGED <<sshConfig, tunnels, configs, tunnelDones, mdone, rlock,
                    panicked, sup>>
     /\ SetTun(tun)

\* delete(m.tunnels, name), delete(m.configs, name), return nil and unlock
DeleteTunnel(th, name, tunF) ==
  /\ tunnels' = [tunnels EXCEPT ![name] = NoTun]
  /\ configs' = [configs EXCEPT ![name] = NoCfg]
  /\ Return(th, FALSE, loc[th])
  /\ UNCHANGED <<sshConfig, tunnelDones, mdone, rlock, panicked, sup>>
  /\ SetTun(tunF)

\* the status read was Running: tun.Stop() on the tunnel as it is by now,
\* under the lock; its error is Remove's, else the entries are deleted
RemoveStop(th) ==
  /\ Alive /\ pc[th] = "rm_stop"
  /\ \E ok \in BOOLEAN :
       LET s == TunStop(tun, loc[th].h, ok) IN
       IF s.err
       THEN /\ Return(th, TRUE, loc[th])
            /\ UNCHANGED <<sshConfig, tunnels, configs, tunnelDones, mdone,
                           rlock, panicked, sup>>
            /\ SetTun(s.tun)
       ELSE DeleteTunnel(th, loc[th].name, s.tun)

\* the status read was not Running: the entries are deleted without a Stop
RemoveDelete(th) ==
  /\ Alive /\ pc[th] = "rm_delete"
  /\ DeleteTunnel(th, loc[th].name, tun)

\* ---------------------------------------------------------------- Add then Remove
\* a caller that calls Add(cfg), ignores its result, and calls Remove(cfg.Name)
AddRemoveCall(th, cfg, cap) ==
  Call(th, "AddRemove", cfg, "ar_add",
       [InitLoc EXCEPT !.name = cfg.name, !.cfg = cfg], cap)

AddRemoveAdd(th) ==
  /\ Alive /\ pc[th] = "ar_add"
  /\ pc' = [pc EXCEPT ![th] = "add"]
  /\ cont' = [cont EXCEPT ![th] = "ar_added"]
  /\ hist' = [hist EXCEPT ![th].acts = @ \cup {Act("Add", loc[th].name)}]
  /\ UNCHANGED <<sshConfig, tunnels, configs, tunnelDones, mdone, rlock,
                 panicked, tun, sup, loc, ncalls>>

AddRemoveRemove(th) ==
  /\ Alive /\ pc[th] = "ar_added"
  /\ pc' = [pc EXCEPT ![th] = "rm_sar"]
  /\ cont' = [cont EXCEPT ![th] = "ar_removed"]
  /\ hist' = [hist EXCEPT ![th].acts = @ \cup {Act("Remove", loc[th].name)}]
  /\ UNCHANGED <<sshConfig, tunnels, configs, tunnelDones, mdone, rlock,
                 panicked, tun, sup, loc, ncalls>>

\* back from Remove, whose result is the caller's
AddRemoveDone(th) ==
  /\ Alive /\ pc[th] = "ar_removed"
  /\ Return(th, loc[th].err, loc[th])
  /\ UNCHANGED <<sshConfig, tunnels, configs, tunnelDones, mdone, rlock,
                 panicked, sup>>
  /\ SetTun(tun)

\* ---------------------------------------------------------------- Start
StartCall(th, n, cap) ==
  Call(th, "Start", n, "st_read", [InitLoc EXCEPT !.name = n], cap)

StartRead(th) ==
  /\ Alive /\ pc[th] = "st_read" /\ CanRLock
  /\ LET name == loc[th].name IN
     IF tunnels[name] = NoTun
     THEN Return(th, TRUE, loc[th])
     ELSE Goto(th, "st_tun", [loc[th] EXCEPT !.h = tunnels[name], !.cfg = configs[name]])
  /\ UNCHANGED <<sshConfig, tunnels, configs, tunnelDones, mdone, rlock,
                 panicked, sup>>
  /\ SetTun(tun)

\* a Start that launches the supervisor whatever the config says
StartTun_AlwaysSupervise(th) ==
  /\ Alive /\ pc[th] = "st_tun"
  /\ \E up \in BOOLEAN :
     LET r == TunStart(tun, loc[th].h, up) IN
     /\ IF r.err
        THEN Return(th, TRUE,
                    IF tun[loc[th].h].status \in {"Running", "Starting"}
                    THEN [loc[th] EXCEPT !.busy = @ \cup {loc[th].name}]
                    ELSE loc[th])
        ELSE Goto(th, "st_sar", [loc[th] EXCEPT !.h = NoTun])
     /\ UNCHANGED <<sshConfig, tunnels, configs, tunnelDones, mdone, rlock,
                    panicked, sup>>
     /\ SetTun(r.tun)

\* a Start that goes on when the tunnel's Start has failed
StartTun_IgnoresError(th) ==
  /\ Alive /\ pc[th] = "st_tun"
  /\ \E up \in BOOLEAN :
     LET r == TunStart(tun, loc[th].h, up) IN
     /\ IF loc[th].cfg.enabled
        THEN Goto(th, "st_sar", [loc[th] EXCEPT !.h = NoTun])
        ELSE Return(th, FALSE, loc[th])
     /\ UNCHANGED <<sshConfig, tunnels, configs, tunnelDones, mdone, rlock,
                    panicked, sup>>
     /\ SetTun(r.tun)

StartTun(th) ==
  /\ Alive /\ pc[th] = "st_tun"
  /\ \E up \in BOOLEAN :
     LET r == TunStart(tun, loc[th].h, up) IN
     /\ IF r.err
        THEN Return(th, TRUE,
                    IF tun[loc[th].h].status \in {"Running", "Starting"}
                    THEN [loc[th] EXCEPT !.busy = @ \cup {loc[th].name}]
                    ELSE loc[th])
        ELSE IF loc[th].cfg.enabled
        THEN Goto(th, "st_sar", [loc[th] EXCEPT !.h = NoTun])
        ELSE Return(th, FALSE, loc[th])
     /\ UNCHANGED <<sshConfig, tunnels, configs, tunnelDones, mdone, rlock,
                    panicked, sup>>
     /\ SetTun(r.tun)

\* ---------------------------------------------------------------- Stop
StopCall(th, n, cap) ==
  Call(th, "Stop", n, "sp_sar", [InitLoc EXCEPT !.name = n], cap)

\* a Stop that leaves the supervisor alone
StopStopAutoRestart_Skip(th) ==
  /\ Alive /\ pc[th] = "sp_sar" /\ CanLock
  /\ Goto(th, "sp_read", loc[th])
  /\ UNCHANGED <<sshConfig, tunnels, configs, tunnelDones, mdone, rlock,
                 panicked, tun, sup>>

StopStopAutoRestart(th) == StopAutoRestartForTunnel(th, "sp_sar", "sp_read")

StopRead(th) ==
  /\ Alive /\ pc[th] = "sp_read" /\ CanRLock
  /\ LET name == loc[th].name IN
     IF tunnels[name] = NoTun
     THEN Return(th, TRUE, loc[th])
     ELSE Goto(th, "sp_tun", [loc[th] EXCEPT !.h = tunnels[name]])
  /\ UNCHANGED <<sshConfig, tunnels, configs, tunnelDones, mdone, rlock,
                 panicked, sup>>
  /\ SetTun(tun)

StopTun(th) ==
  /\ Alive /\ pc[th] = "sp_tun"
  /\ \E ok \in BOOLEAN :
       LET s == TunStop(tun, loc[th].h, ok) IN
       /\ Return(th, s.err, loc[th])
       /\ UNCHANGED <<sshConfig, tunnels, configs, tunnelDones, mdone, rlock,
                      panicked, sup>>
       /\ SetTun(s.tun)

\* ---------------------------------------------------------------- Restart
RestartCall(th, n, cap) ==
  Call(th, "Restart", n, "rs_read", [InitLoc EXCEPT !.name = n], cap)

RestartRead(th) ==
  /\ Alive /\ pc[th] = "rs_read" /\ CanRLock
  /\ LET name == loc[th].name IN
     IF tunnels[name] = NoTun
     THEN Return(th, TRUE, loc[th])
     ELSE Goto(th, "rs_tun", [loc[th] EXCEPT !.h = tunnels[name]])
  /\ UNCHANGED <<sshConfig, tunnels, configs, tunnelDones, mdone, rlock,
                 panicked, sup>>
  /\ SetTun(tun)

\* a Restart that cancels the supervisor of the tunnel it restarts
RestartTun_CancelsSupervisor(th) ==
  /\ Alive /\ pc[th] = "rs_tun"
  /\ \E ok \in BOOLEAN, up \in BOOLEAN :
       LET r == TunRestart(tun, loc[th].h, ok, up)
           d == tunnelDones[loc[th].name] IN
       /\ Return(th, r.err, loc[th])
       /\ tunnelDones' = [tunnelDones EXCEPT ![loc[th].name] = NoSup]
       /\ SetSup(IF d = NoSup THEN sup ELSE [sup EXCEPT ![d].closed = TRUE])
       /\ UNCHANGED <<sshConfig, tunnels, configs, mdone, rlock, panicked>>
       /\ SetTun(r.tun)

RestartTun(th) ==
  /\ Alive /\ pc[th] = "rs_tun"
  /\ \E ok \in BOOLEAN, up \in BOOLEAN :
       LET r == TunRestart(tun, loc[th].h, ok, up) IN
       /\ Return(th, r.err, loc[th])
       /\ UNCHANGED <<sshConfig, tunnels, configs, tunnelDones, mdone, rlock,
                      panicked, sup>>
       /\ SetTun(r.tun)

\* ---------------------------------------------------------------- StartAll
StartAllCall(th, cap) ==
  Call(th, "StartAll", "", "sta_names", InitLoc, cap)

StartAllNames(th) ==
  /\ Alive /\ pc[th] = "sta_names" /\ CanRLock
  /\ Goto(th, "sta_loop", [loc[th] EXCEPT !.todo = Registered])
  /\ UNCHANGED <<sshConfig, tunnels, configs, tunnelDones, mdone, rlock,
                 panicked, tun, sup>>

\* a StartAll that gives up at the first Start that fails
StartAllLoop_StopsAtFirstError(th) ==
  /\ Alive /\ pc[th] = "sta_loop"
  /\ IF loc[th].todo = {} \/ hist[th].errs # {}
     THEN Return(th, hist[th].errs # {}, loc[th])
     ELSE \E n \in loc[th].todo :
            /\ pc' = [pc EXCEPT ![th] = "st_read"]
            /\ cont' = [cont EXCEPT ![th] = "sta_loop"]
            /\ ncalls' = ncalls
            /\ loc' = [loc EXCEPT ![th].todo = @ \ {n}, ![th].name = n]
            /\ hist' = [hist EXCEPT ![th].acts = @ \cup {Act("Start", n)}]
  /\ UNCHANGED <<sshConfig, tunnels, configs, tunnelDones, mdone, rlock,
                 panicked, tun, sup>>

StartAllLoop(th) ==
  /\ Alive /\ pc[th] = "sta_loop"
  /\ IF loc[th].todo = {}
     THEN Return(th, hist[th].errs # {}, loc[th])
     ELSE \E n \in loc[th].todo :
            /\ pc' = [pc EXCEPT ![th] = "st_read"]
            /\ cont' = [cont EXCEPT ![th] = "sta_loop"]
            /\ ncalls' = ncalls
            /\ loc' = [loc EXCEPT ![th].todo = @ \ {n}, ![th].name = n]
            /\ hist' = [hist EXCEPT ![th].acts = @ \cup {Act("Start", n)}]
  /\ UNCHANGED <<sshConfig, tunnels, configs, tunnelDones, mdone, rlock,
                 panicked, tun, sup>>

\* ---------------------------------------------------------------- StopAll
StopAllCall(th, cap) ==
  Call(th, "StopAll", "", "spa_close", InitLoc, cap)

\* first critical section: close and delete every registered cancel channel
StopAllCloseDones(th) ==
  /\ Alive /\ pc[th] = "spa_close" /\ CanLock
  /\ IF \E n \in Names : tunnelDones[n] # NoSup /\ sup[tunnelDones[n]].closed
     THEN Panic
     ELSE /\ tunnelDones' = [n \in Names |-> NoSup]
          /\ SetSup([s \in SupIds |->
                       IF \E n \in Names : tunnelDones[n] = s
                       THEN [sup[s] EXCEPT !.closed = TRUE] ELSE sup[s]])
          /\ Goto(th, "spa_rlock", loc[th])
          /\ UNCHANGED <<sshConfig, tunnels, configs, mdone, rlock, panicked, tun>>

\* m.mu.RLock(), held until StopAll returns
StopAllRLock(th) ==
  /\ Alive /\ pc[th] = "spa_rlock" /\ CanRLock
  /\ rlock' = rlock \cup {th}
  /\ Goto(th, "spa_loop", [loc[th] EXCEPT !.todo = Registered])
  /\ UNCHANGED <<sshConfig, tunnels, configs, tunnelDones, mdone, panicked,
                 tun, sup>>

\* a StopAll that returns with the read lock still held
StopAllLoop_KeepsRLock(th) ==
  /\ Alive /\ pc[th] = "spa_loop"
  /\ IF loc[th].todo = {}
     THEN /\ rlock' = rlock
          /\ Return(th, hist[th].errs # {}, loc[th])
          /\ UNCHANGED <<sshConfig, tunnels, configs, tunnelDones, mdone,
                         panicked, sup>>
          /\ SetTun(tun)
     ELSE \E n \in loc[th].todo, ok \in BOOLEAN :
            LET s == TunStop(tun, tunnels[n], ok) IN
            /\ pc' = pc /\ cont' = cont /\ ncalls' = ncalls
            /\ loc' = [loc EXCEPT ![th].todo = @ \ {n}]
            /\ hist' = [hist EXCEPT
                          ![th].acts = @ \cup {Act("Stop", n)},
                          ![th].errs = IF s.err THEN @ \cup {Act("Stop", n)} ELSE @]
            /\ UNCHANGED <<sshConfig, tunnels, configs, tunnelDones, mdone,
                           rlock, panicked, sup>>
            /\ SetTun(s.tun)

StopAllLoop(th) ==
  /\ Alive /\ pc[th] = "spa_loop"
  /\ IF loc[th].todo = {}
     THEN /\ rlock' = rlock \ {th}
          /\ Return(th, hist[th].errs # {}, loc[th])
          /\ UNCHANGED <<sshConfig, tunnels, configs, tunnelDones, mdone,
                         panicked, sup>>
          /\ SetTun(tun)
     ELSE \E n \in loc[th].todo, ok \in BOOLEAN :
            LET s == TunStop(tun, tunnels[n], ok) IN
            /\ pc' = pc /\ cont' = cont /\ ncalls' = ncalls
            /\ loc' = [loc EXCEPT ![th].todo = @ \ {n}]
            /\ hist' = [hist EXCEPT
                          ![th].acts = @ \cup {Act("Stop", n)},
                          ![th].errs = IF s.err THEN @ \cup {Act("Stop", n)} ELSE @]
            /\ UNCHANGED <<sshConfig, tunnels, configs, tunnelDones, mdone,
                           rlock, panicked, sup>>
            /\ SetTun(s.tun)

\* ---------------------------------------------------------------- Close
CloseCall(th, cap) ==
  Call(th, "Close", "", "cl_close", InitLoc, cap)

\* close(m.done), then StopAll, whose error map decides Close's result
Close(th) ==
  /\ Alive /\ pc[th] = "cl_close"
  /\ IF mdone
     THEN Panic
     ELSE /\ mdone' = TRUE
          /\ Goto(th, "spa_close", loc[th])
          /\ UNCHANGED <<sshConfig, tunnels, configs, tunnelDones, rlock,
                         panicked, tun, sup>>

\* ---------------------------------------------------------------- health
\* a health record that looks at the status only
HealthStatusOf_IgnoresLastError(name, status, lastErr) ==
  [name |-> name, status |-> status, error |-> lastErr,
   healthy |-> status = "Running"]

\* the HealthStatus record HealthCheck builds from what tun.Status() and
\* tun.LastError() returned (error: LastError is not nil)
HealthStatusOf(name, status, lastErr) ==
  [name |-> name, status |-> status, error |-> lastErr,
   healthy |-> status = "Running" /\ ~lastErr]

HealthCheckCall(th, cap) == Call(th, "HealthCheck", "", "hc_rlock", InitLoc, cap)

UnhealthyCall(th, cap) == Call(th, "Unhealthy", "", "uh_call", InitLoc, cap)

\* Unhealthy: all := m.HealthCheck()
UnhealthyHealthCheck(th) ==
  /\ Alive /\ pc[th] = "uh_call"
  /\ pc' = [pc EXCEPT ![th] = "hc_rlock"]
  /\ cont' = [cont EXCEPT ![th] = "uh_filter"]
  /\ UNCHANGED <<sshConfig, tunnels, configs, tunnelDones, mdone, rlock,
                 panicked, tun, sup, loc, ncalls, hist>>

\* HealthCheck: m.mu.RLock(), kept to the return; results is empty and the
\* loop ranges over the entries of m.tunnels
HealthCheck(th) ==
  /\ Alive /\ pc[th] = "hc_rlock" /\ CanRLock
  /\ rlock' = rlock \cup {th}
  /\ Goto(th, "hc_loop", [loc[th] EXCEPT !.todo = Registered, !.results = {}])
  /\ UNCHANGED <<sshConfig, tunnels, configs, tunnelDones, mdone, panicked, sup>>
  /\ SetTun(tun)

\* the next entry of m.tunnels, in any order: status := tun.Status()
HealthCheckStatus(th) ==
  /\ Alive /\ pc[th] = "hc_loop"
  /\ \E n \in loc[th].todo :
       Goto(th, "hc_err", [loc[th] EXCEPT !.name = n, !.h = tunnels[n],
                                          !.status = tun[tunnels[n]].status])
  /\ UNCHANGED <<sshConfig, tunnels, configs, tunnelDones, mdone, rlock,
                 panicked, sup>>
  /\ SetTun(tun)

\* lastErr := tun.LastError(), and the record is appended
HealthCheckLastError(th) ==
  /\ Alive /\ pc[th] = "hc_err"
  /\ LET h == HealthStatusOf(loc[th].name, loc[th].status,
                             tun[loc[th].h].lastError) IN
     Goto(th, "hc_loop", [loc[th] EXCEPT !.todo = @ \ {loc[th].name},
                                         !.h = NoTun, !.status = "",
                                         !.results = @ \cup {h}])
  /\ UNCHANGED <<sshConfig, tunnels, configs, tunnelDones, mdone, rlock,
                 panicked, sup>>
  /\ SetTun(tun)

\* return results, and the deferred RUnlock: to the caller, or to Unhealthy
HealthCheckReturn(th) ==
  /\ Alive /\ pc[th] = "hc_loop" /\ loc[th].todo = {}
  /\ rlock' = rlock \ {th}
  /\ IF cont[th] = "none"
     THEN /\ pc' = [pc EXCEPT ![th] = "idle"]
          /\ loc' = [loc EXCEPT ![th] = InitLoc]
          /\ hist' = [hist EXCEPT ![th].ret = "nil",
                                  ![th].health = loc[th].results]
          /\ UNCHANGED cont
     ELSE /\ pc' = [pc EXCEPT ![th] = cont[th]]
          /\ cont' = [cont EXCEPT ![th] = "none"]
          /\ UNCHANGED <<loc, hist>>
  /\ UNCHANGED <<sshConfig, tunnels, configs, tunnelDones, mdone, panicked,
                 sup, ncalls>>
  /\ SetTun(tun)

\* Unhealthy: the records of all that are not healthy
Unhealthy(th) ==
  /\ Alive /\ pc[th] = "uh_filter"
  /\ pc' = [pc EXCEPT ![th] = "idle"]
  /\ loc' = [loc EXCEPT ![th] = InitLoc]
  /\ hist' = [hist EXCEPT ![th].ret = "nil",
                          ![th].health = loc[th].results,
                          ![th].unhealthy = {h \in loc[th].results : ~h.healthy}]
  /\ UNCHANGED <<sshConfig, tunnels, configs, tunnelDones, mdone, rlock,
                 panicked, sup, cont, ncalls>>
  /\ SetTun(tun)

\* ---------------------------------------------------------------- Reconcile
\* a change predicate that forgets the remote host
tunnelConfigChanged_NoHost(old, new) ==
  \/ old.remotePort # new.remotePort
  \/ old.localPort # new.localPort
  \/ old.enabled # new.enabled
  \/ old.interval # new.interval

\* a change predicate that compares the interval with the wrong field
tunnelConfigChanged_WrongField(old, new) ==
  \/ old.remoteHost # new.remoteHost
  \/ old.remotePort # new.remotePort
  \/ old.localPort # new.localPort
  \/ old.enabled # new.enabled
  \/ old.interval # new.remotePort

\* a change predicate that forgets the restart interval
tunnelConfigChanged_NoInterval(old, new) ==
  \/ old.remoteHost # new.remoteHost
  \/ old.remotePort # new.remotePort
  \/ old.localPort # new.localPort
  \/ old.enabled # new.enabled

\* tunnelConfigChanged
tunnelConfigChanged(old, new) ==
  \/ old.remoteHost # new.remoteHost
  \/ old.remotePort # new.remotePort
  \/ old.localPort # new.localPort
  \/ old.enabled # new.enabled
  \/ old.interval # new.interval

ReconcileCall(th, nc, cap) ==
  Call(th, "Reconcile", nc, "rc_ssh", [InitLoc EXCEPT !.new = nc], cap)

ReconcileSSH(th) ==
  /\ Alive /\ pc[th] = "rc_ssh" /\ CanLock
  /\ sshConfig' = loc[th].new.ssh
  /\ Goto(th, "rc_list", loc[th])
  /\ UNCHANGED <<tunnels, configs, tunnelDones, mdone, rlock, panicked, tun, sup>>

\* a Reconcile that rebuilds: every registered name is queued for removal
ReconcileList_RemoveAll(th) ==
  /\ Alive /\ pc[th] = "rc_list" /\ CanRLock
  /\ Goto(th, "rc_rm_loop",
          [loc[th] EXCEPT !.cur = Registered, !.todo = Registered])
  /\ UNCHANGED <<sshConfig, tunnels, configs, tunnelDones, mdone, rlock,
                 panicked, tun, sup>>

\* m.List() and the two name sets
ReconcileList(th) ==
  /\ Alive /\ pc[th] = "rc_list" /\ CanRLock
  /\ Goto(th, "rc_rm_loop",
          [loc[th] EXCEPT !.cur = Registered,
                          !.todo = Registered \ NewNames(loc[th].new)])
  /\ UNCHANGED <<sshConfig, tunnels, configs, tunnelDones, mdone, rlock,
                 panicked, tun, sup>>

\* a Reconcile that returns the error of a Remove that failed
ReconcileRemoveLoop_AbortsOnError(th) ==
  /\ Alive /\ pc[th] = "rc_rm_loop"
  /\ IF RemoveFailed(hist[th].errs)
     THEN /\ pc' = [pc EXCEPT ![th] = "idle"]
          /\ cont' = cont /\ ncalls' = ncalls
          /\ loc' = [loc EXCEPT ![th] = InitLoc]
          /\ hist' = [hist EXCEPT ![th].ret = "err"]
     ELSE IF loc[th].todo = {}
     THEN Goto(th, "rc_add_loop",
               [loc[th] EXCEPT !.todo = NewNames(loc[th].new) \ loc[th].cur])
     ELSE \E n \in loc[th].todo :
            /\ pc' = [pc EXCEPT ![th] = "rm_sar"]
            /\ cont' = [cont EXCEPT ![th] = "rc_rm_loop"]
            /\ ncalls' = ncalls
            /\ loc' = [loc EXCEPT ![th].todo = @ \ {n}, ![th].name = n]
            /\ hist' = [hist EXCEPT ![th].acts = @ \cup {Act("Remove", n)}]
  /\ UNCHANGED <<sshConfig, tunnels, configs, tunnelDones, mdone, rlock,
                 panicked, tun, sup>>

\* for name := range currentNames: Remove the names absent from the new config
ReconcileRemoveLoop(th) ==
  /\ Alive /\ pc[th] = "rc_rm_loop"
  /\ IF loc[th].todo = {}
     THEN Goto(th, "rc_add_loop",
               [loc[th] EXCEPT !.todo = NewNames(loc[th].new) \ loc[th].cur])
     ELSE \E n \in loc[th].todo :
            /\ pc' = [pc EXCEPT ![th] = "rm_sar"]
            /\ cont' = [cont EXCEPT ![th] = "rc_rm_loop"]
            /\ ncalls' = ncalls
            /\ loc' = [loc EXCEPT ![th].todo = @ \ {n}, ![th].name = n]
            /\ hist' = [hist EXCEPT ![th].acts = @ \cup {Act("Remove", n)}]
  /\ UNCHANGED <<sshConfig, tunnels, configs, tunnelDones, mdone, rlock,
                 panicked, tun, sup>>

\* for name, cfg := range newConfigs: Add and Start the names not yet registered
ReconcileAddLoop(th) ==
  /\ Alive /\ pc[th] = "rc_add_loop"
  /\ IF loc[th].todo = {}
     THEN Goto(th, "rc_chg_loop",
               [loc[th] EXCEPT !.todo = NewNames(loc[th].new) \cap loc[th].cur])
     ELSE \E n \in loc[th].todo :
            /\ pc' = [pc EXCEPT ![th] = "add"]
            /\ cont' = [cont EXCEPT ![th] = "rc_add_ret"]
            /\ ncalls' = ncalls
            /\ loc' = [loc EXCEPT ![th].todo = @ \ {n}, ![th].name = n,
                                  ![th].cfg = loc[th].new.t[n]]
            /\ hist' = [hist EXCEPT ![th].acts = @ \cup {Act("Add", n)}]
  /\ UNCHANGED <<sshConfig, tunnels, configs, tunnelDones, mdone, rlock,
                 panicked, tun, sup>>

\* for name, newCfg := range newConfigs: read the stored config of a name that
\* was registered and compare
ReconcileChangedLoop(th) ==
  /\ Alive /\ pc[th] = "rc_chg_loop"
  /\ IF loc[th].todo = {}
     THEN Return(th, FALSE, loc[th])
     ELSE \E n \in loc[th].todo :
            /\ CanRLock
            /\ LET oldCfg == configs[n]
                   newCfg == loc[th].new.t[n]
                   l == [loc[th] EXCEPT !.todo = @ \ {n}, !.name = n, !.cfg = newCfg]
               IN  IF oldCfg # NoCfg /\ tunnelConfigChanged(oldCfg, newCfg)
                   THEN Goto(th, "rc_chg_write", l)
                   ELSE Goto(th, "rc_chg_loop", l)
  /\ UNCHANGED <<sshConfig, tunnels, configs, tunnelDones, mdone, rlock,
                 panicked, sup>>
  /\ SetTun(tun)

\* m.configs[name] = newCfg, then Restart(name)
ReconcileStore(th) ==
  /\ Alive /\ pc[th] = "rc_chg_write" /\ CanLock
  /\ configs' = [configs EXCEPT ![loc[th].name] = loc[th].cfg]
  /\ pc' = [pc EXCEPT ![th] = "rs_read"]
  /\ cont' = [cont EXCEPT ![th] = "rc_chg_loop"]
  /\ ncalls' = ncalls
  /\ hist' = [hist EXCEPT ![th].acts = @ \cup {Act("Restart", loc[th].name)}]
  /\ UNCHANGED <<sshConfig, tunnels, tunnelDones, mdone, rlock, panicked,
                 tun, sup, loc>>

\* ---------------------------------------------------------------- config file and watcher
\* SSHConfig.Validate: the zero SSH configuration is rejected
SSHValidate(ssh) == ssh # ""

\* the loop of Config.Validate over TunnelConfigs, from index i on, with the
\* names and local ports seen so far; "ok" or the first error
RECURSIVE ValidateFrom(_, _, _, _)
ValidateFrom(ts, i, names, localPorts) ==
  IF i > Len(ts) THEN "ok"
  ELSE LET t == ts[i] IN
       IF t.name = "" THEN "name is required"
       ELSE IF t.name \in names THEN "duplicate tunnel name"
       ELSE IF t.remoteHost = "" THEN "remoteHost is required"
       ELSE IF t.remotePort <= 0 THEN "remotePort must be greater than 0"
       ELSE IF t.localPort <= 0 THEN "localPort must be greater than 0"
       ELSE IF t.localPort \in localPorts THEN "duplicate localPort"
       ELSE IF t.enabled /\ t.interval <= 0 THEN "interval must be greater than 0"
       ELSE ValidateFrom(ts, i + 1, names \cup {t.name},
                         localPorts \cup {t.localPort})

\* a validation that lets a config without tunnels through
Validate_AcceptsNoTunnels(c) ==
  IF ~SSHValidate(c.ssh) THEN "ssh"
  ELSE ValidateFrom(c.tunnels, 1, {}, {})

\* Config.Validate
Validate(c) ==
  IF ~SSHValidate(c.ssh) THEN "ssh"
  ELSE IF Len(c.tunnels) = 0 THEN "at least one tunnel is required"
  ELSE ValidateFrom(c.tunnels, 1, {}, {})

\* the nil *Config that Load returns with an error
NilConfig == [ssh |-> "", tunnels |-> <<>>]

\* config.Load of a file: read, parse, validate
Load(file) ==
  LET c == [ssh |-> file.ssh, tunnels |-> file.tunnels] IN
  IF ~file.readable THEN [err |-> "failed to read config file", cfg |-> NilConfig]
  ELSE IF ~file.wellFormed
  THEN [err |-> "failed to parse config file", cfg |-> NilConfig]
  ELSE IF Validate(c) # "ok" THEN [err |-> "invalid config", cfg |-> NilConfig]
  ELSE [err |-> "ok", cfg |-> c]

\* Reconcile's newConfigs map of a Config: the last entry of each name
ToNewConfig(c) ==
  [ssh |-> c.ssh,
   t |-> [n \in Names |->
            LET I == {i \in 1..Len(c.tunnels) : c.tunnels[i].name = n} IN
            IF I = {} THEN NoCfg
            ELSE c.tunnels[CHOOSE i \in I : \A j \in I : j <= i]]]

\* tunnel entries found in config files: the valid ones, and t2 on t1's local
\* port, t1 with auto-restart enabled but no interval
FilePool ==
  {BaseCfg("t1"), [BaseCfg("t1") EXCEPT !.remoteHost = "B"],
   [BaseCfg("t1") EXCEPT !.enabled = TRUE, !.interval = 1],
   BaseCfg("t2"),
   [BaseCfg("t2") EXCEPT !.localPort = DefaultPort("t1")],
   [BaseCfg("t1") EXCEPT !.enabled = TRUE]}

\* entries that miss a required field
BadEntries ==
  {[BaseCfg("t1") EXCEPT !.name = ""],
   [BaseCfg("t1") EXCEPT !.remoteHost = ""],
   [BaseCfg("t1") EXCEPT !.remotePort = 0],
   [BaseCfg("t1") EXCEPT !.localPort = 0]}

FileOf(ssh, ts) ==
  [readable |-> TRUE, wellFormed |-> TRUE, ssh |-> ssh, tunnels |-> ts]

\* the contents the config file can have when an event is processed
Files ==
  {FileOf(ssh, ts) :
     ssh \in SSHConfigs,
     ts \in {<<>>} \cup {<<a>> : a \in FilePool \cup BadEntries}
             \cup {<<a, b>> : a \in FilePool, b \in FilePool}}
  \cup {FileOf("", <<BaseCfg("t1")>>),
        [FileOf("ssh1", <<BaseCfg("t1")>>) EXCEPT !.readable = FALSE],
        [FileOf("ssh1", <<BaseCfg("t1")>>) EXCEPT !.wellFormed = FALSE]}

\* watch: a relevant event arrives; the file is what Load will find
WatchEvent(th, file, cap) ==
  /\ Alive /\ pc[th] = "idle"
  /\ ncalls < cap
  /\ ncalls' = ncalls + 1
  /\ pc' = [pc EXCEPT ![th] = "wt_load"]
  /\ hist' = [hist EXCEPT ![th] = [InitHist EXCEPT !.op = "Reload", !.arg = file,
                                                   !.ret = "pending"]]
  /\ UNCHANGED <<sshConfig, tunnels, configs, tunnelDones, mdone, rlock,
                 panicked, tun, sup, cont, loc>>

\* a reload that goes on to Reconcile with whatever the file parsed to
Reload_SkipsValidate(th) ==
  /\ Alive /\ pc[th] = "wt_load"
  /\ LET r == Load(hist[th].arg)
         c == [ssh |-> hist[th].arg.ssh, tunnels |-> hist[th].arg.tunnels] IN
     IF r.err \notin {"ok", "invalid config"}
     THEN /\ pc' = [pc EXCEPT ![th] = "idle"]
          /\ hist' = [hist EXCEPT ![th].arg = r.err, ![th].ret = "err"]
          /\ UNCHANGED loc
     ELSE /\ pc' = [pc EXCEPT ![th] = "rc_ssh"]
          /\ hist' = [hist EXCEPT ![th].op = "Reconcile",
                                  ![th].arg = ToNewConfig(c)]
          /\ loc' = [loc EXCEPT ![th] =
                       [InitLoc EXCEPT !.new = ToNewConfig(c), !.pre = Snapshot]]
  /\ UNCHANGED <<sshConfig, tunnels, configs, tunnelDones, mdone, rlock,
                 panicked, tun, sup, cont, ncalls>>

\* a reload that loads the file and leaves it at that
Reload_NoReconcile(th) ==
  /\ Alive /\ pc[th] = "wt_load"
  /\ LET r == Load(hist[th].arg) IN
     /\ pc' = [pc EXCEPT ![th] = "idle"]
     /\ hist' = [hist EXCEPT ![th].arg = r.err,
                             ![th].ret = IF r.err = "ok" THEN "nil" ELSE "err"]
     /\ UNCHANGED loc
  /\ UNCHANGED <<sshConfig, tunnels, configs, tunnelDones, mdone, rlock,
                 panicked, tun, sup, cont, ncalls>>

\* reload: Load fails, log and return; else call Reconcile
Reload(th) ==
  /\ Alive /\ pc[th] = "wt_load"
  /\ LET r == Load(hist[th].arg) IN
     IF r.err # "ok"
     THEN /\ pc' = [pc EXCEPT ![th] = "idle"]
          /\ hist' = [hist EXCEPT ![th].arg = r.err, ![th].ret = "err"]
          /\ UNCHANGED loc
     ELSE /\ pc' = [pc EXCEPT ![th] = "rc_ssh"]
          /\ hist' = [hist EXCEPT ![th].op = "Reconcile",
                                  ![th].arg = ToNewConfig(r.cfg)]
          /\ loc' = [loc EXCEPT ![th] =
                       [InitLoc EXCEPT !.new = ToNewConfig(r.cfg), !.pre = Snapshot]]
  /\ UNCHANGED <<sshConfig, tunnels, configs, tunnelDones, mdone, rlock,
                 panicked, tun, sup, cont, ncalls>>

\* ---------------------------------------------------------------- supervisor goroutine
\* time.NewTicker(interval) panics in the goroutine when the interval is not
\* positive; otherwise case <-ticker.C: look the tunnel up
SupTick(s) ==
  /\ Alive /\ sup[s].pc = "select"
  /\ IF sup[s].interval <= 0
     THEN Panic
     ELSE /\ CanRLock
          /\ LET id == tunnels[sup[s].name] IN
             /\ UNCHANGED <<sshConfig, tunnels, configs, tunnelDones, mdone,
                            rlock, panicked, pc, cont, loc, ncalls, hist>>
             /\ IF id = NoTun
                THEN SetSup([sup EXCEPT ![s].pc = "exited"])
                ELSE SetSup([sup EXCEPT ![s].pc = "inspect", ![s].h = id])
             /\ SetTun(tun)

\* case <-done / case <-m.done, in the loop a goroutine with a ticker runs
SupCancelled(s) ==
  /\ Alive /\ sup[s].pc = "select" /\ sup[s].interval > 0
  /\ sup[s].closed \/ mdone
  /\ UNCHANGED <<sshConfig, tunnels, configs, tunnelDones, mdone, rlock,
                 panicked, pc, cont, loc, ncalls, hist>>
  /\ SetSup([sup EXCEPT ![s].pc = "exited"])
  /\ SetTun(tun)

\* status := tun.Status()
SupInspect(s) ==
  /\ Alive /\ sup[s].pc = "inspect"
  /\ UNCHANGED <<sshConfig, tunnels, configs, tunnelDones, mdone, rlock,
                 panicked, pc, cont, loc, ncalls, hist>>
  /\ SetSup([sup EXCEPT ![s].pc = "lasterr", ![s].status = tun[sup[s].h].status])
  /\ SetTun(tun)

\* a supervisor that decides on the status only
SupLastError_StatusOnly(s) ==
  /\ Alive /\ sup[s].pc = "lasterr"
  /\ UNCHANGED <<sshConfig, tunnels, configs, tunnelDones, mdone, rlock,
                 panicked, pc, cont, loc, ncalls, hist>>
  /\ IF sup[s].status = "Error"
     THEN SetSup([sup EXCEPT ![s].pc = "rs_read", ![s].h = NoTun, ![s].status = ""])
     ELSE SetSup([sup EXCEPT ![s].pc = "select", ![s].h = NoTun, ![s].status = ""])
  /\ SetTun(tun)

\* lastErr := tun.LastError(), and the decision on the two values read
SupLastError(s) ==
  /\ Alive /\ sup[s].pc = "lasterr"
  /\ UNCHANGED <<sshConfig, tunnels, configs, tunnelDones, mdone, rlock,
                 panicked, pc, cont, loc, ncalls, hist>>
  /\ IF sup[s].status = "Error" \/ tun[sup[s].h].lastError
     THEN SetSup([sup EXCEPT ![s].pc = "rs_read", ![s].h = NoTun, ![s].status = ""])
     ELSE SetSup([sup EXCEPT ![s].pc = "select", ![s].h = NoTun, ![s].status = ""])
  /\ SetTun(tun)

\* m.Restart(name) called by the supervisor: the lookup
SupRestartRead(s) ==
  /\ Alive /\ sup[s].pc = "rs_read" /\ CanRLock
  /\ LET id == tunnels[sup[s].name] IN
     /\ UNCHANGED <<sshConfig, tunnels, configs, tunnelDones, mdone, rlock,
                    panicked, pc, cont, loc, ncalls, hist>>
     /\ IF id = NoTun
        THEN SetSup([sup EXCEPT ![s].pc = "select"])
        ELSE SetSup([sup EXCEPT ![s].pc = "rs_tun", ![s].h = id])
     /\ SetTun(tun)

\* m.Restart(name) called by the supervisor: tun.Restart()
SupRestartTun(s) ==
  /\ Alive /\ sup[s].pc = "rs_tun"
  /\ \E ok \in BOOLEAN, up \in BOOLEAN :
       LET r == TunRestart(tun, sup[s].h, ok, up) IN
       /\ UNCHANGED <<sshConfig, tunnels, configs, tunnelDones, mdone, rlock,
                      panicked, pc, cont, loc, ncalls, hist>>
       /\ SetSup([sup EXCEPT ![s].pc = "select", ![s].h = NoTun])
       /\ SetTun(r.tun)

\* ---------------------------------------------------------------- environment
\* accept loop: a channel-open fails and is recorded as lastError
ChannelOpenFailed(i) ==
  /\ Alive
  /\ tun[i].status = "Running" /\ ~tun[i].lastError
  /\ tun' = [tun EXCEPT ![i].lastError = TRUE]
  /\ UNCHANGED <<sshConfig, tunnels, configs, tunnelDones, mdone, rlock,
                 panicked, sup, pc, cont, loc, ncalls, hist>>

\* ---------------------------------------------------------------- specification
\* the steps of the methods, by the caller that is inside them
AddSteps(th) == Add(th)

RemoveSteps(th) ==
  RemoveStopAutoRestart(th) \/ Remove(th) \/ RemoveStop(th) \/ RemoveDelete(th)

StartSteps(th) == StartRead(th) \/ StartTun(th) \/ StartAutoRestartForTunnel(th)

StopSteps(th) == StopStopAutoRestart(th) \/ StopRead(th) \/ StopTun(th)

RestartSteps(th) == RestartRead(th) \/ RestartTun(th)

StartAllSteps(th) == StartAllNames(th) \/ StartAllLoop(th)

StopAllSteps(th) == StopAllCloseDones(th) \/ StopAllRLock(th) \/ StopAllLoop(th)

ReconcileSteps(th) ==
  \/ ReconcileSSH(th)
  \/ ReconcileList(th)
  \/ ReconcileRemoveLoop(th)
  \/ ReconcileAddLoop(th)
  \/ ReconcileChangedLoop(th)
  \/ ReconcileStore(th)

HealthSteps(th) ==
  \/ UnhealthyHealthCheck(th)
  \/ HealthCheck(th)
  \/ HealthCheckStatus(th)
  \/ HealthCheckLastError(th)
  \/ HealthCheckReturn(th)
  \/ Unhealthy(th)

SupStep(s) ==
  \/ SupTick(s)
  \/ SupCancelled(s)
  \/ SupInspect(s)
  \/ SupLastError(s)
  \/ SupRestartRead(s)
  \/ SupRestartTun(s)

EnvStep ==
  \E i \in TunIds : ChannelOpenFailed(i)

\* the lifecycle methods called one after the other by one caller, with the
\* supervisors and the accept loops running
Next ==
  \/ \E cfg \in CfgPool : AddCall("main", cfg, MaxCalls)
  \/ \E n \in Names : RemoveCall("main", n, MaxCalls)
  \/ \E n \in Names : StartCall("main", n, MaxCalls)
  \/ \E n \in Names : StopCall("main", n, MaxCalls)
  \/ \E n \in Names : RestartCall("main", n, MaxCalls)
  \/ StartAllCall("main", MaxCalls)
  \/ StopAllCall("main", MaxCalls)
  \/ CloseCall("main", MaxCalls)
  \/ AddSteps("main")
  \/ RemoveSteps("main")
  \/ StartSteps("main")
  \/ StopSteps("main")
  \/ RestartSteps("main")
  \/ StartAllSteps("main")
  \/ StopAllSteps("main")
  \/ Close("main")
  \/ \E s \in SupIds : SupStep(s)
  \/ EnvStep

Spec == Init /\ [][Next]_vars

\* the reloads of the watcher: Reconcile called again and again on a manager
\* that starts empty
NextReconcile ==
  \/ \E nc \in NewConfigs : ReconcileCall("watcher", nc, MaxReconciles)
  \/ ReconcileSteps("watcher")
  \/ AddSteps("watcher")
  \/ RemoveSteps("watcher")
  \/ StartSteps("watcher")
  \/ RestartSteps("watcher")
  \/ \E s \in SupIds : SupStep(s)
  \/ EnvStep

SpecReconcile == Init /\ [][NextReconcile]_vars

\* configurations of t1 that differ from the base one in a single field of
\* those Reconcile compares, or in the two auto-restart fields
FieldPool ==
  {BaseCfg("t1"),
   [BaseCfg("t1") EXCEPT !.remoteHost = "B"],
   [BaseCfg("t1") EXCEPT !.remotePort = 1522],
   [BaseCfg("t1") EXCEPT !.localPort = 3],
   [BaseCfg("t1") EXCEPT !.interval = 1],
   [BaseCfg("t1") EXCEPT !.enabled = TRUE, !.interval = 1],
   [BaseCfg("t1") EXCEPT !.enabled = TRUE, !.interval = 2],
   BaseCfg("t2")}

\* Reconcile called again and again with configs that change t1 field by
\* field, and Restart called directly
NextReconcileFields ==
  \/ \E nc \in NewConfigsOver({"ssh1"}, FieldPool) :
        ReconcileCall("watcher", nc, MaxFieldReconciles)
  \/ \E n \in Names : RestartCall("watcher", n, MaxFieldReconciles)
  \/ ReconcileSteps("watcher")
  \/ AddSteps("watcher")
  \/ RemoveSteps("watcher")
  \/ StartSteps("watcher")
  \/ RestartSteps("watcher")
  \/ \E s \in SupIds : SupStep(s)
  \/ EnvStep

SpecReconcileFields == Init /\ [][NextReconcileFields]_vars

\* the watcher goroutine: events on the config file, each followed by reload
NextWatcher ==
  \/ \E file \in Files : WatchEvent("watcher", file, MaxReloads)
  \/ Reload("watcher")
  \/ ReconcileSteps("watcher")
  \/ AddSteps("watcher")
  \/ RemoveSteps("watcher")
  \/ StartSteps("watcher")
  \/ RestartSteps("watcher")
  \/ \E s \in SupIds : SupStep(s)
  \/ EnvStep

SpecWatcher == Init /\ [][NextWatcher]_vars

\* the watcher goroutine is scheduled: a reload under way goes on
WatcherSteps ==
  \/ Reload("watcher")
  \/ ReconcileSteps("watcher")
  \/ AddSteps("watcher")
  \/ RemoveSteps("watcher")
  \/ StartSteps("watcher")
  \/ RestartSteps("watcher")

\* a few contents of the config file: one tunnel or the other, both, t1 with
\* auto-restart, and no tunnel at all (invalid)
FewFiles ==
  {FileOf("ssh1", ts) :
     ts \in {<<BaseCfg("t1")>>, <<BaseCfg("t2")>>,
             <<BaseCfg("t1"), BaseCfg("t2")>>,
             <<[BaseCfg("t1") EXCEPT !.enabled = TRUE, !.interval = 1]>>,
             <<>>}}

NextWatcherFew ==
  \/ \E file \in FewFiles : WatchEvent("watcher", file, MaxReloads)
  \/ WatcherSteps
  \/ \E s \in SupIds : SupStep(s)
  \/ EnvStep

SpecWatcherFair == Init /\ [][NextWatcherFew]_vars /\ WF_vars(WatcherSteps)

\* ---------------------------------------------------------------- watcher events
\* fsnotify.Op bits
OpCreate == 1
OpWrite == 2
OpRemove == 4
OpRename == 8
OpChmod == 16
Ops == 0..31

\* event.Op&bit == bit
HasOp(op, bit) == (op \div bit) % 2 = 1

\* strings.HasPrefix
HasPrefix(str, prefix) ==
  Len(str) >= Len(prefix) /\ SubSeq(str, 1, Len(prefix)) = prefix

\* filepath.Base: "." for the empty path; trailing separators are dropped;
\* what follows the last separator; "/" for a path of separators only
RECURSIVE StripSlashes(_)
StripSlashes(path) ==
  IF path # <<>> /\ path[Len(path)] = "/"
  THEN StripSlashes(SubSeq(path, 1, Len(path) - 1))
  ELSE path

RECURSIVE AfterLastSlash(_)
AfterLastSlash(path) ==
  IF path = <<>> \/ path[Len(path)] = "/"
  THEN <<>>
  ELSE Append(AfterLastSlash(SubSeq(path, 1, Len(path) - 1)), path[Len(path)])

Base(path) ==
  IF path = <<>> THEN <<".">>
  ELSE LET p == StripSlashes(path) IN
       IF p = <<>> THEN <<"/">> ELSE AfterLastSlash(p)

\* watcher.New: the path of the config file and its base name
configPath == <<"/", "d", "/", "c">>
configName == Base(configPath)

\* paths in the watched directory: the config file, another file, a file
\* whose name begins with the config file's name, a hidden file, the "..data"
\* link of a mounted ConfigMap, and the config file named with a trailing
\* separator
EventNames ==
  {configPath, <<"/", "d", "/", "x">>, <<"/", "d", "/", "c", "c">>,
   <<"/", "d", "/", ".", "c">>, <<"/", "d", "/", ".", ".", "d">>,
   <<"/", "d", "/", "c", "/">>}

Events == [name : EventNames, op : Ops]

\* a watcher that reloads on writes only
isRelevantEvent_WriteOnly(event) ==
  LET name == Base(event.name) IN
  /\ HasOp(event.op, OpWrite)
  /\ name = configName \/ HasPrefix(name, <<".", ".">>)

\* isRelevantEvent: a write or a create, of the config file or of a name that
\* begins with ".."
isRelevantEvent(event) ==
  LET name == Base(event.name)
      isWriteOrCreate == HasOp(event.op, OpWrite) \/ HasOp(event.op, OpCreate)
  IN  IF ~isWriteOrCreate THEN FALSE
      ELSE IF name = configName THEN TRUE
      ELSE IF HasPrefix(name, <<".", ".">>) THEN TRUE
      ELSE FALSE

\* Watcher.Stop has run: w.done is closed and the fsnotify watcher is closed
WatcherStopped ==
  \E th \in Threads : hist[th].op = "Shutdown" /\ pc[th] # "sd_wstop"

\* main has started the watcher and waits for a signal, or has got it
Watching ==
  \/ hist["main"].op = "Boot" /\ pc["main"] = "idle" /\ hist["main"].ret # "fatal"
  \/ hist["main"].op = "Shutdown"

\* watch: an event arrives while the loop waits in its select; a relevant
\* one goes on to reload, with file what Load will find; any other is dropped
WatchReceive(th, event, file, cap) ==
  /\ Alive /\ pc[th] = "idle" /\ ~WatcherStopped
  /\ ncalls < cap
  /\ ncalls' = ncalls + 1
  /\ IF isRelevantEvent(event)
     THEN /\ pc' = [pc EXCEPT ![th] = "wt_load"]
          /\ loc' = [loc EXCEPT ![th] = [InitLoc EXCEPT !.event = event]]
          /\ hist' = [hist EXCEPT ![th] = [InitHist EXCEPT !.op = "Reload", !.arg = file,
                                                           !.ret = "pending"]]
     ELSE /\ pc' = pc /\ loc' = loc
          /\ hist' = [hist EXCEPT ![th] = [InitHist EXCEPT !.op = "Event", !.arg = event,
                                                           !.ret = "ignored"]]
  /\ UNCHANGED <<sshConfig, tunnels, configs, tunnelDones, mdone, rlock,
                 panicked, tun, sup, cont>>

\* main: the process starts with file as its config file
BootCall(th, file, cap) ==
  /\ hist[th].op = "none"
  /\ Call(th, "Boot", file, "bt_load", InitLoc, cap)

\* config.Load, log.Fatalf when it fails, else NewManager(&cfg.SSH)
BootLoad(th) ==
  /\ Alive /\ pc[th] = "bt_load"
  /\ LET r == Load(hist[th].arg) IN
     IF r.err # "ok"
     THEN /\ pc' = [pc EXCEPT ![th] = "idle"]
          /\ hist' = [hist EXCEPT ![th].ret = "fatal"]
          /\ UNCHANGED <<sshConfig, loc>>
     ELSE /\ pc' = [pc EXCEPT ![th] = "bt_add_loop"]
          /\ sshConfig' = r.cfg.ssh
          /\ loc' = [loc EXCEPT ![th].queue = r.cfg.tunnels]
          /\ UNCHANGED hist
  /\ UNCHANGED <<tunnels, configs, tunnelDones, mdone, rlock, panicked, tun,
                 sup, cont, ncalls>>

\* for each entry of cfg.TunnelConfigs, in order: mgr.Add, whose error is
\* logged; then mgr.StartAll, whose errors are logged
BootAddLoop(th) ==
  /\ Alive /\ pc[th] = "bt_add_loop"
  /\ IF loc[th].queue = <<>>
     THEN /\ pc' = [pc EXCEPT ![th] = "sta_names"]
          /\ loc' = [loc EXCEPT ![th] = [InitLoc EXCEPT !.pre = loc[th].pre]]
          /\ UNCHANGED <<cont, hist>>
     ELSE LET cfg == Head(loc[th].queue) IN
          /\ pc' = [pc EXCEPT ![th] = "add"]
          /\ cont' = [cont EXCEPT ![th] = "bt_add_loop"]
          /\ loc' = [loc EXCEPT ![th].queue = Tail(@), ![th].name = cfg.name,
                                ![th].cfg = cfg]
          /\ hist' = [hist EXCEPT ![th].acts = @ \cup {Act("Add", cfg.name)}]
  /\ UNCHANGED <<sshConfig, tunnels, configs, tunnelDones, mdone, rlock,
                 panicked, tun, sup, ncalls>>

\* StartAll has returned: main logs mgr.Status(), read under the read lock,
\* then watcher.New and w.Start; when fsnotify.NewWatcher or fsWatcher.Add
\* fails, log.Fatalf ends the process with the tunnels as they are; else the
\* watch goroutine runs and main waits for a signal
BootWatch(th) ==
  /\ Alive /\ pc[th] = "bt_watch" /\ CanRLock
  /\ \E newOk \in BOOLEAN, addOk \in BOOLEAN :
       /\ pc' = [pc EXCEPT ![th] = "idle"]
       /\ hist' = [hist EXCEPT ![th].ret = IF newOk /\ addOk THEN @ ELSE "fatal"]
  /\ UNCHANGED <<sshConfig, tunnels, configs, tunnelDones, mdone, rlock,
                 panicked, tun, sup, cont, loc, ncalls>>

BootSteps(th) ==
  \/ BootLoad(th)
  \/ BootAddLoop(th)
  \/ BootWatch(th)
  \/ AddSteps(th)
  \/ StartAllSteps(th)
  \/ StartSteps(th)

\* main after the signal: w.Stop(), then mgr.StopAll(), then it returns
ShutdownCall(th, cap) ==
  /\ Watching /\ hist[th].op = "Boot"
  /\ Call(th, "Shutdown", "", "sd_wstop", InitLoc, cap)

\* Watcher.Stop: close(w.done), which panics on a closed channel, and
\* fsWatcher.Close(); it returns without waiting for the watch goroutine
WatcherStop(th) ==
  /\ Alive /\ pc[th] = "sd_wstop"
  /\ IF \E o \in Threads \ {th} : hist[o].op = "Shutdown"
     THEN Panic
     ELSE /\ Goto(th, "spa_close", loc[th])
          /\ UNCHANGED <<sshConfig, tunnels, configs, tunnelDones, mdone, rlock,
                         panicked, tun, sup>>

\* what Load finds after an event: t1, t1 with auto-restart, or t2
EventFiles ==
  {FileOf("ssh1", ts) :
     ts \in {<<BaseCfg("t1")>>, <<BaseCfg("t2")>>,
             <<[BaseCfg("t1") EXCEPT !.enabled = TRUE, !.interval = 1]>>}}

\* the watcher goroutine alone: it receives events of every kind and reloads
NextEvents ==
  \/ \E event \in Events, file \in EventFiles :
       WatchReceive("watcher", event, file, MaxEvents)
  \/ WatcherSteps
  \/ \E s \in SupIds : SupStep(s)
  \/ EnvStep

SpecEvents == Init /\ [][NextEvents]_vars

\* the watch goroutine main has started receives a write of the config file
WatchWrite(th, file, cap) ==
  /\ Watching
  /\ WatchReceive(th, [name |-> configPath, op |-> OpWrite], file, cap)

\* the process as cmd/main.go runs it: main loads the config file, adds and
\* starts its tunnels and starts the watcher; the watcher goroutine reloads
\* on writes of the config file; main shuts down on a signal and the process
\* exits
NextShutdown ==
  \/ \E file \in FewFiles : BootCall("main", file, 1)
  \/ BootSteps("main")
  \/ \E file \in FewFiles : WatchWrite("watcher", file, MaxShutdownEvents + 1)
  \/ WatcherSteps
  \/ ShutdownCall("main", MaxShutdownEvents + 2)
  \/ WatcherStop("main")
  \/ StopAllSteps("main")
  \/ \E s \in SupIds : SupStep(s)
  \/ EnvStep

SpecShutdown == Init /\ [][NextShutdown]_vars

\* t1 with auto-restart, under two intervals
ChannelPool ==
  {[BaseCfg("t1") EXCEPT !.enabled = TRUE, !.interval = 1],
   [BaseCfg("t1") EXCEPT !.enabled = TRUE, !.interval = 2]}

\* t1 with auto-restart as the watcher's file has it, and as main adds it,
\* under another interval
LockPool == {[BaseCfg("t1") EXCEPT !.enabled = TRUE, !.interval = 1]}
LockAddPool == {[BaseCfg("t1") EXCEPT !.enabled = TRUE, !.interval = 2]}

\* the steps of every method of the manager
LockSteps(th) ==
  \/ ReconcileSteps(th)
  \/ AddSteps(th)
  \/ RemoveSteps(th)
  \/ StartSteps(th)
  \/ StopSteps(th)
  \/ RestartSteps(th)
  \/ StartAllSteps(th)
  \/ StopAllSteps(th)
  \/ Close(th)
  \/ HealthSteps(th)

\* the users of Manager.mu side by side: the watcher calls Reconcile (write
\* lock in Add, Remove and the supervisors' registry, read lock in Start and
\* Restart) and the reading methods HealthCheck and Unhealthy (read lock held
\* across the loop), main calls the lifecycle methods, StopAll (read lock
\* held across the tunnels' Stop) and Close, and the supervisors tick
NextLocks ==
  \/ \E nc \in NewConfigsOver({"ssh1"}, LockPool) :
        ReconcileCall("watcher", nc, MaxLockCalls)
  \/ HealthCheckCall("watcher", MaxLockCalls)
  \/ UnhealthyCall("watcher", MaxLockCalls)
  \/ \E cfg \in LockAddPool : AddCall("main", cfg, MaxLockCalls)
  \/ \E cfg \in LockAddPool : RemoveCall("main", cfg.name, MaxLockCalls)
  \/ \E cfg \in LockAddPool : StartCall("main", cfg.name, MaxLockCalls)
  \/ \E cfg \in LockAddPool : StopCall("main", cfg.name, MaxLockCalls)
  \/ \E cfg \in LockAddPool : RestartCall("main", cfg.name, MaxLockCalls)
  \/ StartAllCall("main", MaxLockCalls)
  \/ StopAllCall("main", MaxLockCalls)
  \/ CloseCall("main", MaxLockCalls)
  \/ \E th \in Threads : LockSteps(th)
  \/ \E s \in SupIds : SupStep(s)

\* every goroutine that can run is scheduled, and the tunnels' calls return
SpecLocksFair ==
  Init /\ [][NextLocks]_vars /\ \A th \in Threads : WF_vars(LockSteps(th))

\* the steps of every method that closes, registers or deletes a cancel
\* channel, or that Reconcile calls
ChannelSteps(th) ==
  \/ ReconcileSteps(th)
  \/ AddSteps(th)
  \/ RemoveSteps(th)
  \/ StartSteps(th)
  \/ StopSteps(th)
  \/ RestartSteps(th)
  \/ StopAllSteps(th)
  \/ Close(th)

\* Start, Stop, Remove, StopAll and Close called by two callers at once, in
\* any order, beside the Reconcile calls of the watcher (which go through
\* Add, Remove, Start, Restart and the two supervisor-registry methods) and
\* the supervisors
NextChannels ==
  \/ \E nc \in NewConfigsOver({"ssh1"}, ChannelPool) :
        ReconcileCall("watcher", nc, MaxChannelCalls)
  \/ \E th \in Threads :
        \/ \E cfg \in ChannelPool : StartCall(th, cfg.name, MaxChannelCalls)
        \/ \E cfg \in ChannelPool : StopCall(th, cfg.name, MaxChannelCalls)
        \/ \E cfg \in ChannelPool : RemoveCall(th, cfg.name, MaxChannelCalls)
        \/ StopAllCall(th, MaxChannelCalls)
        \/ CloseCall(th, MaxChannelCalls)
        \/ ChannelSteps(th)
  \/ \E s \in SupIds : SupStep(s)

SpecChannels == Init /\ [][NextChannels]_vars

AddRemoveSteps(th) == AddRemoveAdd(th) \/ AddRemoveRemove(th) \/ AddRemoveDone(th)

\* one caller that sets tunnels up with Add and Start and calls Add then
\* Remove in a row
NextAddRemove ==
  \/ \E cfg \in CfgPool : AddCall("main", cfg, MaxSetupCalls)
  \/ \E n \in Names : StartCall("main", n, MaxSetupCalls)
  \/ \E cfg \in CfgPool : AddRemoveCall("main", cfg, MaxSetupCalls)
  \/ AddSteps("main")
  \/ StartSteps("main")
  \/ RemoveSteps("main")
  \/ AddRemoveSteps("main")
  \/ \E s \in SupIds : SupStep(s)
  \/ EnvStep

SpecAddRemove == Init /\ [][NextAddRemove]_vars

\* two callers inside the manager at once
NextConcurrent ==
  \/ \E th \in Threads :
        \/ \E cfg \in CfgPool : AddCall(th, cfg, MaxConcurrentCalls)
        \/ \E n \in Names : RemoveCall(th, n, MaxConcurrentCalls)
        \/ \E n \in Names : StartCall(th, n, MaxConcurrentCalls)
        \/ \E n \in Names : StopCall(th, n, MaxConcurrentCalls)
        \/ AddSteps(th)
        \/ RemoveSteps(th)
        \/ StartSteps(th)
        \/ StopSteps(th)
  \/ \E s \in SupIds : SupStep(s)
  \/ EnvStep

SpecConcurrent == Init /\ [][NextConcurrent]_vars

\* one caller reads the health of the tunnels that another adds and restarts
NextHealth ==
  \/ \E n \in Names : AddCall("main", BaseCfg(n), MaxHealthCalls)
  \/ \E n \in Names : RestartCall("main", n, MaxHealthCalls)
  \/ HealthCheckCall("watcher", MaxHealthCalls)
  \/ UnhealthyCall("watcher", MaxHealthCalls)
  \/ AddSteps("main")
  \/ RestartSteps("main")
  \/ HealthSteps("watcher")
  \/ EnvStep

SpecHealth == Init /\ [][NextHealth]_vars

\* two callers start the tunnels that one of them adds and stops
NextStartRace ==
  \/ \E cfg \in CfgPool : AddCall("main", cfg, MaxStartRaceCalls)
  \/ \E n \in Names : StopCall("main", n, MaxStartRaceCalls)
  \/ \E th \in Threads, n \in Names : StartCall(th, n, MaxStartRaceCalls)
  \/ AddSteps("main")
  \/ StopSteps("main")
  \/ \E th \in Threads : StartSteps(th)
  \/ \E s \in SupIds : SupStep(s)
  \/ EnvStep

SpecStartRace == Init /\ [][NextStartRace]_vars

\* desired configurations in which t1 has no auto-restart and t2 has it
\* enabled
RaceConfigs ==
  NewConfigsOver({"ssh1"},
                 {BaseCfg("t1"),
                  [BaseCfg("t2") EXCEPT !.enabled = TRUE, !.interval = 1]})

\* the watcher reconciles while another caller adds tunnels
NextReconcileRace ==
  \/ \E nc \in RaceConfigs : ReconcileCall("watcher", nc, MaxRaceCalls)
  \/ \E n \in Names : AddCall("main", BaseCfg(n), MaxRaceCalls)
  \/ ReconcileSteps("watcher")
  \/ \E th \in Threads :
        \/ AddSteps(th)
        \/ RemoveSteps(th)
        \/ StartSteps(th)
        \/ RestartSteps(th)
  \/ \E s \in SupIds : SupStep(s)
  \/ EnvStep

SpecReconcileRace == Init /\ [][NextReconcileRace]_vars

\* ---------------------------------------------------------------- properties
\* caller th is back from a call of method o
Returned(th, o) == pc[th] = "idle" /\ hist[th].op = o

\* caller th is inside Reconcile and about to return from it
ReconcileEnding(th) ==
  hist[th].op = "Reconcile" /\ pc[th] = "rc_chg_loop" /\ loc[th].todo = {}

\* the registry holds exactly the tunnels of nc, each with nc's configuration
MatchesNew(nc) ==
  /\ Registered = NewNames(nc)
  /\ \A n \in Names : configs[n] = nc.t[n]

\* C1 as stated: when Reconcile(new) has returned, the registered names are
\* the names of new and every stored TunnelConfig is new's entry
C1_RegistryMatchesNew ==
  \A th \in Threads : Returned(th, "Reconcile") => MatchesNew(hist[th].arg)

\* the same for a Reconcile(new) none of whose Remove calls failed: a failed
\* Remove is the only way the registry differs from new
C1_RegistryMatchesNewUnlessRemoveFailed ==
  \A th \in Threads :
    Returned(th, "Reconcile") /\ ~RemoveFailed(hist[th].errs)
      => MatchesNew(hist[th].arg)

\* a Reconcile that removed one tunnel, added another and had no Remove fail
C1_Witness ==
  \E th \in Threads :
    /\ Returned(th, "Reconcile") /\ ~RemoveFailed(hist[th].errs)
    /\ \E n \in Names : Act("Remove", n) \in hist[th].acts
    /\ \E n \in Names : Act("Add", n) \in hist[th].acts
    /\ Registered # {}

\* C2: after Reconcile has restarted a tunnel whose configuration changed, the
\* remoteHost, remotePort and localPort the tunnel runs with are those of the
\* stored (new) configuration of its name
C2_RestartedTunnelRunsNewConfig ==
  \A th \in Threads, n \in Names :
    ( /\ Returned(th, "Reconcile")
      /\ Act("Restart", n) \in hist[th].acts
      /\ Act("Restart", n) \notin hist[th].errs
      /\ tunnels[n] # NoTun )
    => /\ tun[tunnels[n]].remoteHost = configs[n].remoteHost
       /\ tun[tunnels[n]].remotePort = configs[n].remotePort
       /\ tun[tunnels[n]].localPort = configs[n].localPort

\* a step of caller th inside the second of two Reconcile calls with the same
\* configuration
RepeatReconcileStep(th) ==
  /\ hist[th].op = "Reconcile" /\ hist[th].rep /\ pc[th] # "idle"
  /\ <<pc[th], loc[th], hist[th]>>' # <<pc[th], loc[th], hist[th]>>

\* C3 as stated: a Reconcile(cfg) that follows a Reconcile(cfg) calls no Add,
\* Remove, Start, Stop or Restart, and none of its steps changes the SSH
\* config, the tunnels, the stored configs, the cancel channels, a tunnel
\* object (its status included) or a supervisor
C3_SecondReconcileIsNoOp ==
  [][\A th \in Threads :
       RepeatReconcileStep(th)
         => /\ hist'[th].acts = {}
            /\ UNCHANGED <<sshConfig, tunnels, configs, tunnelDones, tun, sup>>]_vars

\* the same for a second Reconcile(cfg) whose first call had no Remove fail:
\* the failed Remove of C1 is the only way the second call does anything
C3_SecondReconcileIsNoOpUnlessRemoveFailed ==
  [][\A th \in Threads :
       RepeatReconcileStep(th) /\ ~RemoveFailed(hist[th].prevErrs)
         => /\ hist'[th].acts = {}
            /\ UNCHANGED <<sshConfig, tunnels, configs, tunnelDones, tun, sup>>]_vars

\* the second of two equal Reconciles is about to return, with both tunnels
\* registered, one of them supervised
C3_Witness ==
  \E th \in Threads :
    /\ ReconcileEnding(th) /\ hist[th].rep /\ ~RemoveFailed(hist[th].prevErrs)
    /\ Registered = Names
    /\ \E n \in Names : tunnelDones[n] # NoSup

SameTunnelFields(a, b) ==
  /\ a.remoteHost = b.remoteHost
  /\ a.remotePort = b.remotePort
  /\ a.localPort = b.localPort
  /\ a.enabled = b.enabled
  /\ a.interval = b.interval

\* name n was registered when th called Reconcile and the new configuration
\* keeps all its fields
KeptBy(th, n) ==
  /\ hist[th].op = "Reconcile" /\ pc[th] # "idle"
  /\ loc[th].pre.tunnels[n] # NoTun
  /\ loc[th].new.t[n] # NoCfg
  /\ SameTunnelFields(loc[th].pre.configs[n], loc[th].new.t[n])

\* C4: throughout a Reconcile, a name registered before it whose remoteHost,
\* remotePort, localPort and autoRestart fields the new configuration keeps is
\* the subject of no Remove, Add, Start or Restart, and its tunnel object,
\* stored config and supervisor entry are those of before the call
C4_UnchangedTunnelUntouched ==
  \A th \in Threads, n \in Names :
    KeptBy(th, n)
      => /\ \A a \in hist[th].acts : a.name # n
         /\ tunnels[n] = loc[th].pre.tunnels[n]
         /\ configs[n] = loc[th].pre.configs[n]
         /\ tunnelDones[n] = loc[th].pre.tunnelDones[n]

\* a Reconcile about to return that kept one name and added or removed another
C4_Witness ==
  \E th \in Threads, n \in Names :
    /\ ReconcileEnding(th) /\ KeptBy(th, n)
    /\ hist[th].acts # {}

\* C5: after Stop(name) has returned nil the tunnel is Stopped, and stays so
\* until the caller's next call
C5_StoppedStaysStopped ==
  \A th \in Threads :
    ( /\ Returned(th, "Stop") /\ hist[th].ret = "nil"
      /\ tunnels[hist[th].arg] # NoTun )
    => tun[tunnels[hist[th].arg]].status = "Stopped"

\* a supervisor is past its ticker: it is inspecting or restarting the tunnel
Busy(s) == sup[s].pc \in {"inspect", "lasterr", "rs_read", "rs_tun"}

\* C6, its last clause (which more than one live supervisor goroutine of a
\* name is needed to break): no two supervisors of the same name are
\* inspecting or restarting the tunnel at the same time
C6_OneSupervisorAtWork ==
  \A n \in Names :
    \A s1 \in SupIdsOf(n), s2 \in SupIdsOf(n) :
      Busy(s1) /\ Busy(s2) => s1 = s2

\* C7: every name with a cancel channel has a tunnel, and a name has a tunnel
\* exactly when it has a stored config
C7_KeysConsistent ==
  \A n \in Names :
    /\ tunnelDones[n] # NoSup => tunnels[n] # NoTun
    /\ tunnels[n] # NoTun <=> configs[n] # NoCfg

\* C8, the part a finite run decides: Start has been called last on a
\* registered tunnel with autoRestart.enabled, and the tunnel is in Error or
\* has a lastError; then a supervisor goroutine of that name exists (without
\* one, no Restart follows unless a caller makes it)
C8_FailedTunnelHasSupervisor ==
  \A th \in Threads :
    ( /\ Returned(th, "Start")
      /\ tunnels[hist[th].arg] # NoTun
      /\ configs[hist[th].arg].enabled
      /\ \/ tun[tunnels[hist[th].arg]].status = "Error"
         \/ tun[tunnels[hist[th].arg]].lastError )
    => \E s \in SupIdsOf(hist[th].arg) : sup[s].pc # "exited"

\* C9: a Close that follows a Close does not panic
C9_SecondCloseReturns ==
  \A th \in Threads :
    hist[th].op = "Close" /\ hist[th].rep => ~panicked

\* C10: after StopAll or Close has returned without errors no cancel channel
\* is registered and every registered tunnel is Stopped, and stays so until
\* the caller's next call
C10_AllStoppedStayStopped ==
  \A th \in Threads :
    (Returned(th, "StopAll") \/ Returned(th, "Close")) /\ hist[th].ret = "nil"
      => /\ \A n \in Names : tunnelDones[n] = NoSup
         /\ \A n \in Registered : tun[tunnels[n]].status = "Stopped"

\* C11: when a Reconcile(new) has returned, every tunnel it added and every
\* registered tunnel it restarted successfully holds the SSH configuration of
\* new (the one the manager now stores)
C11_TunnelsUseNewSSHConfig ==
  \A th \in Threads, n \in Names :
    ( /\ Returned(th, "Reconcile")
      /\ tunnels[n] # NoTun
      /\ \/ Act("Add", n) \in hist[th].acts
         \/ Act("Restart", n) \in hist[th].acts \ hist[th].errs )
    => /\ sshConfig = hist[th].arg.ssh
       /\ tun[tunnels[n]].ssh = hist[th].arg.ssh

\* C12: after Remove(name) has returned nil, name has no tunnel, no config and
\* no cancel channel, and every tunnel object that was registered under name
\* and still exists is Stopped with no listener bound
C12_RemovedTunnelIsStopped ==
  \A th \in Threads :
    Returned(th, "Remove") /\ hist[th].ret = "nil"
      => /\ tunnels[hist[th].arg] = NoTun
         /\ configs[hist[th].arg] = NoCfg
         /\ tunnelDones[hist[th].arg] = NoSup
         /\ \A i \in TunIdsOf(hist[th].arg) :
              tun[i] # FreeTun => tun[i].status = "Stopped" /\ ~tun[i].listener

\* the supervisor goroutines of name n that run and have not been cancelled
Supervising(n) ==
  {s \in SupIdsOf(n) : sup[s].pc # "exited" /\ ~sup[s].closed}

\* C13: after Start(name) has returned nil, when the stored config has
\* autoRestart enabled exactly one supervisor runs uncancelled for name, the
\* registered one, with the configured interval; when it is disabled no
\* supervisor is registered or running uncancelled for name
C13_StartSupervisesIffEnabled ==
  \A th \in Threads :
    Returned(th, "Start") /\ hist[th].ret = "nil"
      => LET n == hist[th].arg IN
         IF configs[n].enabled
         THEN /\ tunnelDones[n] # NoSup
              /\ Supervising(n) = {tunnelDones[n]}
              /\ sup[tunnelDones[n]].interval = configs[n].interval
         ELSE /\ tunnelDones[n] = NoSup
              /\ Supervising(n) = {}

\* Start has returned nil on a tunnel with autoRestart enabled, a second time:
\* an earlier supervisor of the name, cancelled, is still running
C13_Witness ==
  \E th \in Threads :
    /\ Returned(th, "Start") /\ hist[th].ret = "nil"
    /\ configs[hist[th].arg].enabled
    /\ \E s \in SupIdsOf(hist[th].arg) : sup[s].pc # "exited" /\ sup[s].closed

\* C14: from the moment Stop(name) is past its first step (it is about to look
\* the tunnel up, about to call the tunnel's Stop, or has returned) no cancel
\* channel is registered for name and no supervisor of name runs uncancelled
C14_StopCancelsSupervisorFirst ==
  \A th \in Threads :
    hist[th].op = "Stop" /\ pc[th] \in {"sp_read", "sp_tun", "idle"}
      => /\ tunnelDones[hist[th].arg] = NoSup
         /\ Supervising(hist[th].arg) = {}

\* Stop is about to call Stop on a Running tunnel whose supervisor it has
\* cancelled and which has not exited yet
C14_Witness ==
  \E th \in Threads :
    /\ hist[th].op = "Stop" /\ pc[th] = "sp_tun"
    /\ tun[loc[th].h].status = "Running"
    /\ \E s \in SupIdsOf(hist[th].arg) : sup[s].pc # "exited" /\ sup[s].closed

\* C15: the step in which Add(cfg) finds cfg.Name registered returns an error
\* to the caller and changes neither the registry (tunnels, configs, cancel
\* channels) nor any tunnel object or supervisor
C15_DuplicateAddMutatesNothing ==
  [][\A th \in Threads :
       ( /\ pc[th] = "add" /\ pc'[th] # "add"
         /\ tunnels[loc[th].cfg.name] # NoTun )
       => /\ hist'[th].ret = "err"
          /\ UNCHANGED <<sshConfig, tunnels, configs, tunnelDones, tun, sup>>]_vars

\* Add has failed on a name whose tunnel is Running under a supervisor, with a
\* config other than the stored one
C15_Witness ==
  \E th \in Threads :
    /\ Returned(th, "Add") /\ hist[th].ret = "err"
    /\ tunnels[hist[th].arg.name] # NoTun
    /\ configs[hist[th].arg.name] # hist[th].arg
    /\ tun[tunnels[hist[th].arg.name]].status = "Running"
    /\ tunnelDones[hist[th].arg.name] # NoSup

\* C16: the step in which Add(cfg) finds cfg.Name free returns nil and
\* registers under cfg.Name the config and a tunnel that is Stopped with no
\* listener bound; it leaves the cancel channels and supervisors, the entries
\* of the other names and the other tunnel objects as they were
C16_AddRegistersStoppedTunnel ==
  [][\A th \in Threads :
       ( /\ pc[th] = "add" /\ pc'[th] # "add"
         /\ tunnels[loc[th].cfg.name] = NoTun )
       => LET cfg == loc[th].cfg IN
          /\ hist'[th].ret = "nil"
          /\ tunnels'[cfg.name] # NoTun
          /\ configs'[cfg.name] = cfg
          /\ tun'[tunnels'[cfg.name]].status = "Stopped"
          /\ ~tun'[tunnels'[cfg.name]].listener
          /\ UNCHANGED <<tunnelDones, sup>>
          /\ \A n \in Names \ {cfg.name} :
               tunnels'[n] = tunnels[n] /\ configs'[n] = configs[n]
          /\ \A i \in TunIds \ {tunnels'[cfg.name]} : tun'[i] = tun[i]]_vars

\* Add has succeeded while the other tunnel is Running under a supervisor: the
\* new tunnel is registered, Stopped and unsupervised
C16_Witness ==
  \E th \in Threads :
    /\ Returned(th, "Add") /\ hist[th].ret = "nil"
    /\ tunnels[hist[th].arg.name] # NoTun
    /\ tun[tunnels[hist[th].arg.name]].status = "Stopped"
    /\ tunnelDones[hist[th].arg.name] = NoSup
    /\ \E n \in Names \ {hist[th].arg.name} :
         /\ tunnels[n] # NoTun
         /\ tun[tunnels[n]].status = "Running"
         /\ tunnelDones[n] # NoSup

\* C17: when a caller has called Add(c) with c.Name not registered and then
\* Remove(c.Name), the registered names with their tunnels, and the stored
\* configs, are those of before the Add
C17_AddThenRemoveRestoresRegistry ==
  \A th \in Threads :
    ( /\ hist[th].op = "AddRemove" /\ pc[th] = "ar_removed"
      /\ loc[th].pre.tunnels[loc[th].name] = NoTun )
    => /\ Registered = {n \in Names : loc[th].pre.tunnels[n] # NoTun}
       /\ tunnels = loc[th].pre.tunnels
       /\ configs = loc[th].pre.configs

\* C18, for Stop and Remove: the first step of a Stop(name) or Remove(name)
\* call on a name that has no tunnel, neither when the call was made nor now,
\* taken while no other caller is inside the manager (so that the call is
\* bound to return not-found), leaves tunnels, configs, the cancel channels,
\* the supervisors and every tunnel object unchanged
C18_NotFoundMutatesNothing ==
  [][\A th \in Threads :
       ( /\ hist[th].op \in {"Stop", "Remove"}
         /\ pc[th] \in {"sp_sar", "rm_sar"} /\ pc'[th] # pc[th]
         /\ loc[th].pre.tunnels[loc[th].name] = NoTun
         /\ tunnels[loc[th].name] = NoTun
         /\ \A o \in Threads \ {th} : pc[o] = "idle" )
       => UNCHANGED <<tunnels, configs, tunnelDones, sup, tun>>]_vars

\* C19: when a Reconcile is about to return, every name of the new config
\* that was not registered when it was called has been the subject of Add and
\* Start, is registered with the new config and, unless its Start or a later
\* restart failed for want of the local port or of SSH, its tunnel is
\* Running, under a registered, running supervisor when the new config has
\* autoRestart enabled
C19_NewTunnelsAddedAndStarted ==
  \A th \in Threads, n \in Names :
    ( /\ ReconcileEnding(th)
      /\ loc[th].new.t[n] # NoCfg
      /\ loc[th].pre.tunnels[n] = NoTun )
    => /\ Act("Add", n) \in hist[th].acts
       /\ Act("Start", n) \in hist[th].acts
       /\ tunnels[n] # NoTun
       /\ configs[n] = loc[th].new.t[n]
       /\ \/ Act("Start", n) \in hist[th].errs /\ n \notin loc[th].busy
          \/ tun[tunnels[n]].status = "Error"
          \/ /\ tun[tunnels[n]].status = "Running"
             /\ configs[n].enabled
                  => /\ tunnelDones[n] # NoSup
                     /\ tunnelDones[n] \in Supervising(n)

\* C20: the step in which reload finds that the config file cannot be read,
\* parsed or validated returns to the watcher's loop without calling
\* Reconcile, and leaves the registered tunnels, the stored configs, the SSH
\* config, the tunnel objects and the supervisors as they were
C20_FailedLoadLeavesManagerUntouched ==
  [][\A th \in Threads :
       ( /\ pc[th] = "wt_load" /\ pc'[th] # "wt_load"
         /\ Load(hist[th].arg).err # "ok" )
       => /\ pc'[th] = "idle"
          /\ hist'[th].op = "Reload" /\ hist'[th].acts = {}
          /\ UNCHANGED <<sshConfig, tunnels, configs, tunnelDones, mdone,
                         tun, sup>>]_vars

\* a reload has failed on a file that parses but does not validate, with a
\* tunnel registered, Running and supervised
C20_Witness ==
  \E th \in Threads :
    /\ Returned(th, "Reload") /\ hist[th].arg = "invalid config"
    /\ \E n \in Registered :
         tun[tunnels[n]].status = "Running" /\ tunnelDones[n] # NoSup

\* the watcher has taken an event off the channel and the file holds a
\* content that loads
ValidEventTaken(th) ==
  pc[th] = "wt_load" /\ Load(hist[th].arg).err = "ok"

\* C21 as stated: every event taken while the file holds a valid content is
\* followed by a Reconcile that returns and leaves the registered names equal
\* to the names of that content
C21_ValidWriteReconciled ==
  ValidEventTaken("watcher")
    ~> ( /\ Returned("watcher", "Reconcile")
         /\ Registered = NewNames(hist["watcher"].arg) )

\* the same where a failed Remove excuses the registry: every event taken
\* while the file holds a valid content is followed by a Reconcile with that
\* content that returns, and the failed Remove of C1 is the only way the
\* registered names differ from the names of that content
C21_ValidWriteReconciledUnlessRemoveFailed ==
  ValidEventTaken("watcher")
    ~> ( /\ Returned("watcher", "Reconcile")
         /\ \/ RemoveFailed(hist["watcher"].errs)
            \/ Registered = NewNames(hist["watcher"].arg) )

\* the second event of a run has been followed by a Reconcile that removed
\* one tunnel and added the other
C21_Witness ==
  /\ Returned("watcher", "Reconcile") /\ ncalls = 2
  /\ ~RemoveFailed(hist["watcher"].errs)
  /\ \E n \in Names : Act("Remove", n) \in hist["watcher"].acts
  /\ \E n \in Names : Act("Add", n) \in hist["watcher"].acts
  /\ Registered = NewNames(hist["watcher"].arg)

\* no caller is inside a manager method
Quiet == \A th \in Threads : pc[th] = "idle"

\* C22: between the manager's calls, every tunnel object in status Running
\* has its listener bound, no other Running tunnel object has the same local
\* port, and when the tunnel is registered its local port is the localPort of
\* the stored configuration of its name
C22_RunningTunnelListensOnConfiguredPort ==
  Quiet =>
    /\ \A i \in TunIds :
         tun[i].status = "Running"
           => /\ tun[i].listener
              /\ \A j \in TunIds \ {i} :
                   tun[j].status = "Running" => tun[j].localPort # tun[i].localPort
    /\ \A n \in Registered :
         tun[tunnels[n]].status = "Running"
           => tun[tunnels[n]].localPort = configs[n].localPort

\* C23: the tunnels registered under two different names were constructed
\* with different local ports
C23_RegisteredPortsDistinct ==
  \A n1 \in Registered, n2 \in Registered :
    n1 # n2 => tun[tunnels[n1]].localPort # tun[tunnels[n2]].localPort

\* the next step of caller th calls Start, Stop or Restart of a tunnel
CallsTunnelNext(th) ==
  \/ pc[th] \in {"st_tun", "sp_tun", "rs_tun"}
  \/ pc[th] = "spa_loop" /\ loc[th].todo # {}
  \/ pc[th] = "rm_stop"

\* the next step of caller th runs with the manager's lock held: it holds the
\* read lock, or the step is a section under m.mu.Lock()
LockHeldNext(th) ==
  \/ th \in rlock
  \/ pc[th] \in {"add", "rm_locked", "rm_stop", "rm_delete", "rm_sar", "sp_sar",
                 "st_sar", "spa_close", "rc_ssh", "rc_chg_write"}

\* C24: a caller that is about to call Start, Stop or Restart of a tunnel
\* does not hold the manager's lock
C24_NoLockAcrossTunnelCall ==
  \A th \in Threads : CallsTunnelNext(th) => ~LockHeldNext(th)

\* caller th's Start has got nil from the tunnel's Start
StartSucceeded(th) ==
  /\ hist[th].op = "Start"
  /\ pc[th] = "st_sar" \/ (pc[th] = "idle" /\ hist[th].ret = "nil")

\* C25 as stated, its second half: of two Start(name) calls made on a Stopped
\* tunnel, the second before the first has reached the tunnel, at most one
\* succeeds
C25_AtMostOneConcurrentStartSucceeds ==
  \A th \in Threads : \A o \in Threads \ {th} :
    ( /\ hist[th].conc
      /\ hist[o].op = "Start" /\ hist[o].arg = hist[th].arg )
    => ~(StartSucceeded(th) /\ StartSucceeded(o))

\* C25 amended: the step in which Start(name) calls the tunnel's Start fails
\* when the tunnel is Running or Starting and then leaves the tunnel, the
\* cancel channels and the supervisors as they were; when it succeeds the
\* tunnel was not Running before and is Running after, with its listener
\* bound and no other listener on its port
C25_StartSerializedByTunnelStatus ==
  [][\A th \in Threads :
       (pc[th] = "st_tun" /\ pc'[th] # "st_tun")
       => LET h == loc[th].h IN
          IF tun[h].status \in {"Running", "Starting"}
          THEN /\ pc'[th] = "idle" /\ hist'[th].ret = "err"
               /\ tun'[h] = tun[h]
               /\ UNCHANGED <<tunnelDones, sup>>
          ELSE (pc'[th] = "st_sar" \/ hist'[th].ret = "nil")
                 => /\ tun'[h].status = "Running" /\ tun'[h].listener
                    /\ PortFree(tun', h)]_vars

\* of two concurrent Start calls on a Stopped tunnel one has returned nil
\* and the other an error, and the tunnel is Running with its listener
C25_Witness ==
  \E th \in Threads : \E o \in Threads \ {th} :
    /\ hist[th].conc
    /\ hist[o].op = "Start" /\ hist[o].arg = hist[th].arg
    /\ pc[th] = "idle" /\ pc[o] = "idle"
    /\ {hist[th].ret, hist[o].ret} = {"nil", "err"}
    /\ tunnels[hist[th].arg] # NoTun
    /\ tun[tunnels[hist[th].arg]].status = "Running"
    /\ tun[tunnels[hist[th].arg]].listener

\* the names registered when caller th made the call it is in
RegisteredAtCall(th) == {n \in Names : loc[th].pre.tunnels[n] # NoTun}

ActsOn(o, S) == {Act(o, n) : n \in S}

\* C26: (a) the step in which a Start called by StartAll returns adds the
\* name to the failures exactly when that Start failed; (b) the step in which
\* StartAll returns comes after a Start of every name registered at the call,
\* and returns a non-empty map exactly when a Start failed; (c) a step of
\* StopAll's loop stops one more tunnel and adds its name to the failures
\* exactly when the tunnel's Stop failed, the tunnel staying Running;
\* (d) the step in which StopAll returns comes after a Stop of every tunnel
\* registered at the call, and returns a non-empty map exactly when a Stop
\* failed
C26_FanOutAttemptsAllAndReportsFailures ==
  [][\A th \in Threads :
       /\ ( pc[th] \in {"st_read", "st_tun", "st_sar"} /\ pc'[th] = "sta_loop" )
          => LET a == Act("Start", loc[th].name) IN
             /\ a \in hist[th].acts
             /\ hist'[th].errs = IF loc'[th].err THEN hist[th].errs \cup {a}
                                 ELSE hist[th].errs \ {a}
             /\ loc'[th].err <=> pc[th] # "st_sar" /\ (pc[th] = "st_tun" =>
                                   tun'[loc[th].h].status # "Running"
                                   \/ tun[loc[th].h].status = "Running")
       /\ ( pc[th] = "sta_loop" /\ pc'[th] = "idle" )
          => /\ hist[th].acts = ActsOn("Start", RegisteredAtCall(th))
             /\ hist[th].errs \subseteq hist[th].acts
             /\ hist'[th].ret = "nil" <=> hist[th].errs = {}
       /\ ( pc[th] = "spa_loop" /\ pc'[th] = "spa_loop" /\ loc'[th] # loc[th] )
          => \E n \in Registered :
               /\ Act("Stop", n) \notin hist[th].acts
               /\ hist'[th].acts = hist[th].acts \cup {Act("Stop", n)}
               /\ hist'[th].errs =
                    IF tun'[tunnels[n]].status = "Running"
                    THEN hist[th].errs \cup {Act("Stop", n)} ELSE hist[th].errs
       /\ ( pc[th] = "spa_loop" /\ pc'[th] = "idle" )
          => /\ hist[th].acts = ActsOn("Stop", RegisteredAtCall(th))
             /\ hist[th].errs \subseteq hist[th].acts
             /\ hist'[th].ret = "nil" <=> hist[th].errs = {}]_vars

\* StartAll has returned after Start failed on one of two registered tunnels
\* and succeeded on the other
C26_Witness ==
  \E th \in Threads :
    /\ Returned(th, "StartAll") /\ hist[th].ret = "err"
    /\ hist[th].acts = ActsOn("Start", Names)
    /\ Cardinality(hist[th].errs) = 1
    /\ \E n \in Registered : tun[tunnels[n]].status = "Running"

\* the tunnel registered under n is Running and has no last error
RunsClean(n) ==
  tun[tunnels[n]].status = "Running" /\ ~tun[tunnels[n]].lastError

\* C27: when HealthCheck returns, to its caller or to Unhealthy, its records
\* name exactly the registered tunnels, one record each, and every record is
\* healthy exactly when its status is Running and its error is nil; and
\* Unhealthy returns exactly the records of its HealthCheck that are not healthy
C27_HealthMatchesTunnels ==
  [][\A th \in Threads :
       /\ ( pc[th] = "hc_loop" /\ pc'[th] # "hc_loop" /\ loc[th].todo = {} )
          => LET res == IF pc'[th] = "idle" THEN hist'[th].health
                                           ELSE loc'[th].results IN
             /\ {h.name : h \in res} = Registered
             /\ Cardinality(res) = Cardinality(Registered)
             /\ \A h \in res : h.healthy <=> (h.status = "Running" /\ ~h.error)
       /\ ( pc[th] = "uh_filter" /\ pc'[th] = "idle" )
          => /\ hist'[th].health = loc[th].results
             /\ hist'[th].unhealthy = {h \in hist'[th].health : ~h.healthy}
             /\ \A h \in hist'[th].health :
                  h \in hist'[th].unhealthy
                    <=> ~(h.status = "Running" /\ ~h.error)]_vars

\* Unhealthy has returned one of the two records of its HealthCheck: that of
\* a tunnel read as Running with a last error, and not that of a tunnel read
\* as Running with none
C27_Witness ==
  \E th \in Threads :
    /\ Returned(th, "Unhealthy")
    /\ Cardinality(hist[th].health) = 2 /\ Cardinality(hist[th].unhealthy) = 1
    /\ \A h \in hist[th].health : h.status = "Running"
    /\ \E h \in hist[th].unhealthy : h.error

\* the tunnel list is not empty, every tunnel has a name, a remote host, a
\* positive remote port, a positive local port and, with auto-restart
\* enabled, a positive interval, and no two tunnels share a name or a local
\* port
ValidTunnelList(ts) ==
  /\ Len(ts) > 0
  /\ \A i \in 1..Len(ts) :
       /\ ts[i].name # "" /\ ts[i].remoteHost # ""
       /\ ts[i].remotePort > 0 /\ ts[i].localPort > 0
       /\ ts[i].enabled => ts[i].interval > 0
  /\ \A i \in 1..Len(ts), j \in 1..Len(ts) :
       i # j => ts[i].name # ts[j].name /\ ts[i].localPort # ts[j].localPort

\* C28: when the watcher loads a file that parses and whose SSH settings are
\* valid, Validate accepts its tunnel list exactly when the list is valid;
\* Load then returns the file's config, and otherwise an error and no config
C28_ValidateAcceptsExactlyValidLists ==
  \A th \in Threads :
    ( /\ pc[th] = "wt_load"
      /\ hist[th].arg.readable /\ hist[th].arg.wellFormed
      /\ SSHValidate(hist[th].arg.ssh) )
    => LET f == hist[th].arg
           c == [ssh |-> f.ssh, tunnels |-> f.tunnels] IN
       /\ Validate(c) = "ok" <=> ValidTunnelList(f.tunnels)
       /\ IF ValidTunnelList(f.tunnels)
          THEN Load(f) = [err |-> "ok", cfg |-> c]
          ELSE Load(f) = [err |-> "invalid config", cfg |-> NilConfig]

\* the watcher is loading a file whose two tunnels have different names and
\* the same local port, with a tunnel registered from an earlier load
C28_Witness ==
  \E th \in Threads :
    /\ pc[th] = "wt_load" /\ SSHValidate(hist[th].arg.ssh)
    /\ Len(hist[th].arg.tunnels) = 2
    /\ hist[th].arg.tunnels[1].name # hist[th].arg.tunnels[2].name
    /\ hist[th].arg.tunnels[1].localPort = hist[th].arg.tunnels[2].localPort
    /\ Registered # {}

\* caller th is inside Reconcile, in its first, second or third loop or in a
\* call made from it
RemovePhase(th) ==
  hist[th].op = "Reconcile" /\ (pc[th] = "rc_rm_loop" \/ cont[th] = "rc_rm_loop")

AddPhase(th) ==
  /\ hist[th].op = "Reconcile"
  /\ pc[th] = "rc_add_loop" \/ cont[th] \in {"rc_add_ret", "rc_add_loop"}

ChangePhase(th) ==
  /\ hist[th].op = "Reconcile"
  /\ pc[th] \in {"rc_chg_loop", "rc_chg_write"} \/ cont[th] = "rc_chg_loop"

\* the Removes of a Reconcile come before its Adds and Starts, and these
\* before its Restarts
ReconcileOrdered(th) ==
  LET gone == loc[th].cur \ NewNames(loc[th].new)
      fresh == NewNames(loc[th].new) \ loc[th].cur IN
  /\ RemovePhase(th) => \A a \in hist[th].acts : a.op = "Remove"
  /\ AddPhase(th)
       => /\ ActsOn("Remove", gone) \subseteq hist[th].acts
          /\ \A a \in hist[th].acts : a.op # "Restart"
  /\ ChangePhase(th)
       => /\ ActsOn("Remove", gone) \subseteq hist[th].acts
          /\ ActsOn("Add", fresh) \subseteq hist[th].acts
          /\ \A n \in fresh :
               Act("Add", n) \notin hist[th].errs => Act("Start", n) \in hist[th].acts

\* C29: the calls of a Reconcile are ordered, and when it is about to call
\* the tunnel's Start for a name it has added, no tunnel object of a name it
\* has removed holds a listener on the local port of the new tunnel
C29_RemovedPortFreeForAddedTunnel ==
  \A th \in Threads :
    /\ ReconcileOrdered(th)
    /\ ( AddPhase(th) /\ pc[th] = "st_tun" )
       => \A n \in Names :
            Act("Remove", n) \in hist[th].acts \ hist[th].errs
              => \A i \in TunIdsOf(n) :
                   ~(tun[i].listener /\ tun[i].localPort = tun[loc[th].h].localPort)

\* C30: the step in which a Reconcile returns returns nil, and comes after a
\* Remove of every name it found registered and absent from the new config,
\* an Add of every name of the new config it found unregistered, a Start of
\* exactly those of them whose Add succeeded, and a Restart of every name it
\* found registered whose config, as stored when it was called, the new
\* config changes, whichever of these calls failed
C30_ReconcileGoesOnAfterFailures ==
  [][\A th \in Threads :
       ( hist[th].op = "Reconcile" /\ pc[th] # "idle" /\ pc'[th] = "idle" )
       => LET new == loc[th].new
              gone == loc[th].cur \ NewNames(new)
              fresh == NewNames(new) \ loc[th].cur
              kept == NewNames(new) \cap loc[th].cur IN
          /\ hist'[th].ret = "nil"
          /\ hist'[th].errs = hist[th].errs /\ hist'[th].acts = hist[th].acts
          /\ ActsOn("Remove", gone) \subseteq hist[th].acts
          /\ ActsOn("Add", fresh) \subseteq hist[th].acts
          /\ \A n \in fresh :
               Act("Start", n) \in hist[th].acts <=> Act("Add", n) \notin hist[th].errs
          /\ \A n \in kept :
               ( /\ loc[th].pre.configs[n] # NoCfg
                 /\ tunnelConfigChanged(loc[th].pre.configs[n], new.t[n]) )
               => Act("Restart", n) \in hist[th].acts]_vars

\* a Reconcile has returned nil after its Add of one name failed (another
\* caller had just added it) and its Remove of the other name failed
C30_Witness ==
  \E th \in Threads :
    /\ Returned(th, "Reconcile") /\ hist[th].ret = "nil"
    /\ \E n \in Names :
         /\ Act("Add", n) \in hist[th].errs
         /\ Act("Start", n) \notin hist[th].acts
         /\ \E m \in Names \ {n} : Act("Remove", m) \in hist[th].errs

\* C31: in Reconcile's last loop, (a) the step that examines a name found
\* registered and present in the new config takes one name not examined
\* before, leaves the stored configs alone and goes on to replace the config
\* and restart exactly when remoteHost, remotePort, localPort, the auto-restart
\* flag or the interval of the stored config differ from the new config's;
\* (b) the step that follows replaces the stored config of that name only, by
\* the new one, and issues a Restart of that name, the first of this
\* Reconcile; (c) when Reconcile returns, Restart has been issued for exactly
\* the examined names whose config, as stored at the call, differed, and the
\* stored config of every examined name is the new one
C31_RestartIffConfigChanged ==
  [][\A th \in Threads :
       /\ ( /\ hist[th].op = "Reconcile" /\ pc[th] = "rc_chg_loop"
            /\ loc[th].todo # {} /\ loc'[th] # loc[th] )
          => \E n \in loc[th].todo :
               /\ loc'[th].todo = loc[th].todo \ {n} /\ loc'[th].name = n
               /\ Act("Restart", n) \notin hist[th].acts
               /\ UNCHANGED <<configs, hist>>
               /\ pc'[th] = "rc_chg_write"
                    <=> ~SameTunnelFields(configs[n], loc[th].new.t[n])
       /\ ( pc[th] = "rc_chg_write" /\ pc'[th] # "rc_chg_write" )
          => LET n == loc[th].name IN
             /\ configs' = [configs EXCEPT ![n] = loc[th].new.t[n]]
             /\ Act("Restart", n) \notin hist[th].acts
             /\ hist'[th].acts = hist[th].acts \cup {Act("Restart", n)}
             /\ pc'[th] = "rs_read"
       /\ ( hist[th].op = "Reconcile" /\ pc[th] = "rc_chg_loop" /\ pc'[th] = "idle" )
          => \A n \in NewNames(loc[th].new) \cap loc[th].cur :
               /\ Act("Restart", n) \in hist[th].acts
                    <=> ~SameTunnelFields(loc[th].pre.configs[n], loc[th].new.t[n])
               /\ configs[n] = loc[th].new.t[n]]_vars

\* a Reconcile is about to return that found both names registered,
\* restarted one of them, whose interval alone had changed, and left the
\* other alone
C31_Witness ==
  \E th \in Threads :
    /\ ReconcileEnding(th) /\ loc[th].cur = Names
    /\ \E n \in Names :
         /\ hist[th].acts = {Act("Restart", n)}
         /\ loc[th].pre.configs[n].interval # loc[th].new.t[n].interval
         /\ loc[th].pre.configs[n]
              = [loc[th].new.t[n] EXCEPT !.interval = loc[th].pre.configs[n].interval]
    /\ \A n \in Names : loc[th].new.t[n] # NoCfg

\* C32: a supervisor leaves its select for the tick only to look its tunnel
\* up; it reads the status of the tunnel and then its last error, and calls
\* Restart exactly when the status it read is Error or the last error it
\* reads is set, and otherwise goes back to its select; it calls Restart from
\* nowhere else; and whatever the Restart finds or returns, the supervisor
\* goes back to its select and does not exit
C32_SupervisorRestartsIffUnhealthy ==
  [][\A s \in SupIds :
       /\ ( sup[s].pc = "select" /\ sup'[s].pc \notin {"select", "exited"} )
          => sup'[s].pc = "inspect" /\ sup'[s].h = tunnels[sup[s].name]
       /\ ( sup[s].pc = "inspect" /\ sup'[s].pc # "inspect" )
          => sup'[s].pc = "lasterr" /\ sup'[s].status = tun[sup[s].h].status
       /\ ( sup[s].pc = "lasterr" /\ sup'[s].pc # "lasterr" )
          => sup'[s].pc =
               IF sup[s].status = "Error" \/ tun[sup[s].h].lastError
               THEN "rs_read" ELSE "select"
       /\ ( sup'[s].pc = "rs_read" /\ sup[s].pc # "rs_read" )
          => sup[s].pc = "lasterr"
       /\ ( sup[s].pc = "rs_read" /\ sup'[s].pc # "rs_read" )
          => sup'[s].pc \in {"rs_tun", "select"}
       /\ ( sup[s].pc = "rs_tun" /\ sup'[s].pc # "rs_tun" )
          => sup'[s].pc = "select"]_vars

\* a supervisor that is not cancelled has read Running with a last error set
\* from its registered tunnel and is calling Restart
C32_Witness ==
  \E s \in SupIds :
    /\ sup[s].pc = "rs_read" /\ ~sup[s].closed /\ tunnels[sup[s].name] # NoTun
    /\ tun[tunnels[sup[s].name]].status = "Running"
    /\ tun[tunnels[sup[s].name]].lastError

\* C33: a supervisor whose cancel channel has been closed starts no Restart:
\* it does not go from reading its tunnel to calling Restart
C33_CancelledStartsNoRestart ==
  [][\A s \in SupIds :
       sup[s].closed /\ sup'[s].pc = "rs_read" => sup[s].pc = "rs_read"]_vars

\* C34: when the watch loop receives an event it goes on to reload exactly
\* when the event's Op has the Write or the Create bit (whatever other bits
\* it has) and the event names the config file or a file whose base name
\* begins with ".."; an event with none of the two bits, or one that names
\* another file, is dropped and leaves the watcher and the manager as they
\* were; and a reload starts on the receipt of an event only
C34_ReloadIffRelevantEvent ==
  [][/\ ncalls' # ncalls
        => LET event == IF pc'["watcher"] = "wt_load"
                        THEN loc'["watcher"].event ELSE hist'["watcher"].arg
           IN  /\ pc["watcher"] = "idle"
               /\ pc'["watcher"] = "wt_load"
                    <=> /\ event.op % 4 # 0
                        /\ event.name \in {<<"/", "d", "/", "c">>,
                                           <<"/", "d", "/", "c", "/">>,
                                           <<"/", "d", "/", ".", ".", "d">>}
               /\ pc'["watcher"] # "wt_load"
                    => /\ pc'["watcher"] = "idle"
                       /\ UNCHANGED <<sshConfig, tunnels, configs, tunnelDones,
                                      tun, sup, loc>>
     /\ ( pc'["watcher"] = "wt_load" /\ pc["watcher"] # "wt_load" )
        => ncalls' # ncalls]_vars

\* the watcher is about to reload on an event that only created the "..data"
\* link, having dropped nothing before
C34_Witness ==
  /\ pc["watcher"] = "wt_load"
  /\ loc["watcher"].event = [name |-> <<"/", "d", "/", ".", ".", "d">>, op |-> 1]

\* a step of the watcher goroutine made once Watcher.Stop has returned leaves
\* the SSH config, the registry, the stored configs, the supervisors'
\* registry and the status of every registered tunnel as they were
StoppedWatcherKeepsManager ==
  ( /\ WatcherStopped
    /\ <<pc["watcher"], loc["watcher"]>>' # <<pc["watcher"], loc["watcher"]>> )
  => /\ UNCHANGED <<sshConfig, tunnels, configs, tunnelDones>>
     /\ \A n \in Names :
          tunnels[n] # NoTun => tun'[tunnels[n]].status = tun[tunnels[n]].status

\* when the StopAll of the shutdown returns without a failed Stop, every
\* registered tunnel is Stopped
ShutdownReturnsAllStopped ==
  \A th \in Threads :
    ( /\ hist[th].op = "Shutdown" /\ pc[th] = "spa_loop" /\ pc'[th] = "idle"
      /\ hist[th].errs = {} )
    => \A n \in Names :
         tunnels'[n] # NoTun => tun'[tunnels'[n]].status = "Stopped"

\* C35: once Watcher.Stop has returned, the watcher goroutine changes nothing
\* in the manager or in the status of its tunnels, and when the StopAll of
\* the shutdown returns without a failed Stop every registered tunnel is
\* Stopped
C35_ShutdownLeavesAllStopped ==
  [][StoppedWatcherKeepsManager /\ ShutdownReturnsAllStopped]_vars

\* C36: a step of Restart, made by a caller (directly or from Reconcile),
\* leaves the supervisor registry and every supervisor as they were; a step
\* of the Restart a supervisor makes leaves the registry, the other
\* supervisors and its own cancel channel and interval as they were; and when
\* a Reconcile returns, every name it restarted has the registry entry it had
\* when Reconcile was called, whatever the new config says of auto-restart
C36_RestartLeavesSupervisorsAlone ==
  [][/\ \A th \in Threads :
          ( pc[th] \in {"rs_read", "rs_tun"} /\ pc'[th] # pc[th] )
          => UNCHANGED <<tunnelDones, sup>>
     /\ \A s \in SupIds :
          ( sup[s].pc \in {"rs_read", "rs_tun"} /\ sup'[s].pc # sup[s].pc )
          => /\ UNCHANGED tunnelDones
             /\ sup' = [sup EXCEPT ![s].pc = sup'[s].pc, ![s].h = sup'[s].h]
     /\ \A th \in Threads :
          ( hist[th].op = "Reconcile" /\ pc[th] = "rc_chg_loop" /\ pc'[th] = "idle" )
          => \A n \in Names :
               Act("Restart", n) \in hist[th].acts
                 => tunnelDones[n] = loc[th].pre.tunnelDones[n]]_vars

\* a Reconcile is about to return that restarted a tunnel because its new
\* config enables auto-restart: the tunnel is Running under the new config
\* and no supervisor is registered for it
C36_Witness ==
  \E th \in Threads, n \in Names :
    /\ ReconcileEnding(th) /\ Act("Restart", n) \in hist[th].acts
    /\ ~loc[th].pre.configs[n].enabled /\ configs[n].enabled
    /\ tunnelDones[n] = NoSup
    /\ tun[tunnels[n]].status = "Running"

\* C37: every tunnel object whose listener is bound is registered in the
\* manager, and so is every tunnel object that is Running
C37_BoundListenerIsRegistered ==
  \A i \in TunIds :
    tun[i].listener \/ tun[i].status = "Running"
      => \E n \in Names : tunnels[n] = i

\* C38: after every step, every cancel channel stored in the supervisor
\* registry is open; and the process never panics on closing a closed cancel
\* channel: the only panic it can die of is Close closing the manager's own
\* done channel a second time
C38_RegisteredChannelsOpen ==
  [][/\ \A n \in Names :
          tunnelDones'[n] # NoSup => ~sup'[tunnelDones'[n]].closed
     /\ ( panicked' /\ ~panicked )
        => \E th \in Threads : pc[th] = "cl_close" /\ mdone]_vars

\* the cancel channel of a supervisor that has not exited yet is closed, and
\* another channel, open, is registered for the same name
C38_Witness ==
  \E n \in Names : \E s \in SupIdsOf(n) :
    /\ sup[s].closed /\ sup[s].pc # "exited"
    /\ tunnelDones[n] \notin {NoSup, s}
    /\ ~sup[tunnelDones[n]].closed

\* the labels at which a caller keeps the read lock from one step to the
\* next: the loop of StopAll over the tunnels' Stop and the loop of
\* HealthCheck over the tunnels' Status and LastError
ReadLockedLoops == {"spa_loop", "hc_loop", "hc_err"}

\* the process dies in this step, of Close closing the manager's done
\* channel a second time (C9)
SecondClosePanics ==
  /\ panicked' /\ ~panicked
  /\ \E th \in Threads : pc[th] = "cl_close" /\ mdone

C40_FailedRemoveKeepsState ==
  [][\A th \in Threads :
       ( /\ hist[th].op = "Remove" /\ pc[th] = "rm_stop" /\ pc'[th] = "idle"
         /\ hist'[th].ret = "err" )
       => LET n == loc[th].name IN
          /\ tunnels'[n] = loc[th].pre.tunnels[n]
          /\ configs'[n] = loc[th].pre.configs[n]
          /\ tunnelDones'[n] = loc[th].pre.tunnelDones[n]
          /\ tunnelDones'[n] # NoSup => ~sup'[tunnelDones'[n]].closed]_vars

====
